---- MODULE Spec2Model ----
(***************************************************************************)
(* Query-orchestration engine of the RAG support assistant.                *)
(*                                                                         *)
(* The model follows backend/agents/graph.py (graph wiring, process_query),*)
(* backend/agents/nodes/{router,rag,tools,generator}.py (the four steps)   *)
(* and backend/config/settings.py (cache TTLs).  The graph runtime that    *)
(* executes the compiled graph (cache lookup before a node, write-back     *)
(* after it, replay of cached writes) is the LangGraph library configured  *)
(* by create_rag_graph; its behaviour is modelled at the places where      *)
(* graph.py configures it.                                                 *)
(***************************************************************************)
EXTENDS Integers, Sequences, FiniteSets, TLC

(***************************************************************************)
(* Bounds of the model                                                     *)
(***************************************************************************)
\* number of process_query calls in one behaviour
MaxRuns == 2

\* process_query calls in the behaviours that let cache entries age apart
MaxAgingRuns == 3

\* process_query calls in the behaviours with a checkpointer
MaxCkptRuns == 2

\* put calls of one behaviour that meet a failing Redis write
MaxPutFailures == 1

\* process_query calls in the behaviours that repeat an operational question
MaxStaleRuns == 2

\* process_query calls in the behaviours that run to completion
MaxLiveRuns == 2

\* process_query calls in the behaviours that vary the ids of the call
MaxSessionRuns == 2

\* call_tools executions of each thread in the behaviours with two callers
MaxToolRuns == 1

(***************************************************************************)
(* Program constants                                                       *)
(***************************************************************************)
ttl_router == 3600
ttl_rag == 1800
ttl_tools == 300
ttl_generator == 900

\* Python's None
None == "None"
\* a key that is absent from a parsed JSON object
Missing == "<missing>"

demo_user_id == "user_123"

Steps == {"router", "rag", "tools", "generator"}

\* Calls of process_query(user_query, user_id, session_id): one question
\* asked with both ids omitted and with both given, and a second question
\* asked with the session id omitted
Request(user_query, user_id, session_id) ==
    [user_query |-> user_query, user_id |-> user_id, session_id |-> session_id]

Requests ==
    { Request("How do I reset my password?", None, None),
      Request("How do I reset my password?", "alice", "work"),
      Request("What's my account balance?", "alice", None) }

\* every user gets the demo user's session
session_of_user_shared(user_id) == "session_user_123"

\* f"session_{user_id}"
session_of_user(user_id) ==
    CASE user_id = "alice" -> "session_alice"
      [] user_id = "user_123" -> "session_user_123"
      [] OTHER -> "session_"

(***************************************************************************)
(* Collaborator outcomes (inputs of the steps)                             *)
(***************************************************************************)
\* What the classification call of route_query can do: create_llm_client
\* raises (outside the try), llm.invoke raises, the content is no JSON, or
\* the content is a JSON object with or without the two keys.
RouterResponses ==
    { [kind |-> "client_error", query_type |-> Missing, reasoning |-> Missing],
      [kind |-> "invoke_error", query_type |-> Missing, reasoning |-> Missing],
      [kind |-> "unparsable", query_type |-> Missing, reasoning |-> Missing],
      [kind |-> "object", query_type |-> "documentation", reasoning |-> "how-to question"],
      [kind |-> "object", query_type |-> "operational", reasoning |-> "needs current data"],
      [kind |-> "object", query_type |-> Missing, reasoning |-> Missing] }

\* Documents as _search_vector/_search_bm25/_search_hybrid format them
\* (score is kept as the kind of number it is: the search and the reranker
\* hand back numeric-library scalars)
Doc(title, filename, chunk_id) ==
    [title |-> title, filename |-> filename, chunk_id |-> chunk_id,
     score |-> "numpy.float32"]

d1 == Doc("Password reset", "auth.md", 0)
d1b == Doc("Password reset", "auth.md", 1)
d2 == Doc("Accounts", "accounts.md", 0)

\* What RAGService.search_documents meets: an exception during the search
\* (a client that is not connected and an empty collection end the same
\* way, with no documents), or a result list.
SearchOutcomes ==
    { [kind |-> "error", results |-> <<>>],
      [kind |-> "ok", results |-> <<>>],
      [kind |-> "ok", results |-> <<d1, d2, d1b>>] }

\* names of FINANCE_TOOLS that the model uses
FINANCE_TOOLS == {"get_account_balance", "get_transactions"}

TCall(name, ok) == [name |-> name, ok |-> ok]

\* What the tool-selection call of call_tools can do: the set-up before the
\* try raises, llm.invoke raises, or the response carries tool calls, each
\* of which then succeeds or raises when invoked.
ToolOutcomes ==
    { [kind |-> "setup_error", calls |-> <<>>],
      [kind |-> "invoke_error", calls |-> <<>>],
      [kind |-> "ok", calls |-> <<>>],
      [kind |-> "ok", calls |-> <<TCall("get_account_balance", TRUE)>>],
      [kind |-> "ok", calls |-> <<TCall("get_transactions", TRUE),
                                  TCall("no_such_tool", TRUE),
                                  TCall("get_transactions", FALSE)>>] }

\* What the LLM call of generate_answer can do
GeneratorOutcomes ==
    { [kind |-> "ok", text |-> "Here is the answer."],
      [kind |-> "error", text |-> "timeout"] }

\* Seconds between the end of one process_query call and the start of the
\* next: none, the shortest TTL or the longest TTL
Delays == {0, ttl_tools, ttl_router}

(***************************************************************************)
(* AgentState and the initial state built by process_query                 *)
(***************************************************************************)
initial_state(user_query, user_id, session_id, chat_history, safe, message) ==
    [user_id |-> user_id,
     user_query |-> user_query,
     session_id |-> session_id,
     chat_history |-> chat_history,
     query_type |-> None,
     retrieved_docs |-> <<>>,
     tool_results |-> <<>>,
     is_safe_query |-> safe,
     guardrail_message |-> message,
     answer |-> None,
     sources |-> <<>>,
     routing_reason |-> None]

\* the state before any call of process_query
NoState == initial_state(None, None, None, <<>>, TRUE, None)

(***************************************************************************)
(* Fingerprint                                                             *)
(***************************************************************************)
\* hashlib.sha256(text).hexdigest(): a digest, equal for equal texts and
\* (collision resistance) different for different texts
sha256(text) == <<"sha256", text>>

\* the key also hashes the session
cache_key_with_session(state) == sha256(<<state.user_query, state.session_id>>)

\* the key reads a field the state does not have: state.get("query", "")
cache_key_wrong_field(state) == sha256("")

cache_key_for_state(state) == sha256(state.user_query)

(***************************************************************************)
(* Sanitisation before caching                                             *)
(***************************************************************************)
convert_numpy_types(obj) ==
    IF obj = "numpy.float32" THEN "float" ELSE obj

clean_state_for_caching(state) ==
    [state EXCEPT !.retrieved_docs =
        [i \in 1..Len(state.retrieved_docs) |->
            [state.retrieved_docs[i] EXCEPT
                !.score = convert_numpy_types(state.retrieved_docs[i].score)]]]

(***************************************************************************)
(* The step functions.  Each returns what it did: raised (an exception     *)
(* escaped the function, with its text in error), state (the state it     *)
(* returns), called (number of calls made to the step's collaborator) and  *)
(* read (the evidence field the Generator built its context from).         *)
(***************************************************************************)
Returned(state, called, read) ==
    [raised |-> FALSE, error |-> None, state |-> state, called |-> called,
     read |-> read]

Raised(state, error) ==
    [raised |-> TRUE, error |-> error, state |-> state, called |-> 0,
     read |-> "none"]

FallbackReason == "Fallback to documentation due to routing error"

\* the except branch leaves the route undecided
route_query_fallback_unknown(state, response) ==
    IF response.kind = "client_error"
    THEN Raised(state, "llm client unavailable")
    ELSE IF response.kind = "object"
    THEN Returned([state EXCEPT
                     !.query_type = IF response.query_type = Missing
                                    THEN "unknown" ELSE response.query_type,
                     !.routing_reason = IF response.reasoning = Missing
                                        THEN "" ELSE response.reasoning],
                  1, "none")
    ELSE Returned([state EXCEPT !.query_type = "unknown",
                                !.routing_reason = FallbackReason],
                  1, "none")

\* the fallback to documentation is taken only on a state not yet classified
route_query_sticky(state, response) ==
    IF response.kind = "client_error"
    THEN Raised(state, "llm client unavailable")
    ELSE IF response.kind = "object"
    THEN Returned([state EXCEPT
                     !.query_type = IF response.query_type = Missing
                                    THEN "unknown" ELSE response.query_type,
                     !.routing_reason = IF response.reasoning = Missing
                                        THEN "" ELSE response.reasoning],
                  1, "none")
    ELSE Returned([state EXCEPT
                     !.query_type = IF state.query_type = None
                                    THEN "documentation" ELSE "unknown",
                     !.routing_reason = FallbackReason],
                  1, "none")

route_query(state, response) ==
    IF response.kind = "client_error"
    THEN Raised(state, "llm client unavailable")
    ELSE IF response.kind = "object"
    THEN Returned([state EXCEPT
                     !.query_type = IF response.query_type = Missing
                                    THEN "unknown" ELSE response.query_type,
                     !.routing_reason = IF response.reasoning = Missing
                                        THEN "" ELSE response.reasoning],
                  1, "none")
    ELSE Returned([state EXCEPT !.query_type = "documentation",
                                !.routing_reason = FallbackReason],
                  1, "none")

\* the query type is looked at before the guardrail flag
route_decision_type_first(state) ==
    IF state.query_type = "documentation" THEN "rag"
    ELSE IF state.query_type = "operational" THEN "tools"
    ELSE IF ~state.is_safe_query THEN "end"
    ELSE "rag"

\* an unrecognised query type ends the run instead of defaulting to rag
route_decision_unknown_ends(state) ==
    IF ~state.is_safe_query THEN "end"
    ELSE IF state.query_type = "documentation" THEN "rag"
    ELSE IF state.query_type = "operational" THEN "tools"
    ELSE "end"

route_decision(state) ==
    IF ~state.is_safe_query THEN "end"
    ELSE IF state.query_type = "documentation" THEN "rag"
    ELSE IF state.query_type = "operational" THEN "tools"
    ELSE "rag"

search_documents(outcome) ==
    IF outcome.kind = "ok" THEN outcome.results ELSE <<>>

format_sources(docs) ==
    [i \in 1..Len(docs) |-> [title |-> docs[i].title, filename |-> docs[i].filename]]

RECURSIVE remove_duplicates(_, _, _)
remove_duplicates(sources, seen, unique_sources) ==
    IF sources = <<>> THEN unique_sources
    ELSE LET source == Head(sources)
             key == <<source.title, source.filename>>
         IN IF key \notin seen
            THEN remove_duplicates(Tail(sources), seen \cup {key},
                                   Append(unique_sources, source))
            ELSE remove_duplicates(Tail(sources), seen, unique_sources)

rag_retrieve(state, outcome) ==
    LET docs == search_documents(outcome)
    IN Returned([state EXCEPT
                   !.retrieved_docs = docs,
                   !.sources = remove_duplicates(format_sources(docs), {}, <<>>)],
                1, "none")

\* f"API: {r['tool']}"
api_title(tool) ==
    CASE tool = "get_account_balance" -> "API: get_account_balance"
      [] tool = "get_transactions" -> "API: get_transactions"
      [] OTHER -> "API: "

RECURSIVE execute_tool_calls(_, _)
execute_tool_calls(tool_calls, tool_results) ==
    IF tool_calls = <<>> THEN tool_results
    ELSE LET tool_call == Head(tool_calls)
         IN IF tool_call.name \in FINANCE_TOOLS
            THEN execute_tool_calls(Tail(tool_calls),
                    Append(tool_results,
                           [tool |-> tool_call.name,
                            outcome |-> IF tool_call.ok THEN "result" ELSE "error"]))
            ELSE execute_tool_calls(Tail(tool_calls), tool_results)

tool_sources(tool_results) ==
    [i \in 1..Len(tool_results) |->
        [title |-> api_title(tool_results[i].tool), filename |-> "Operational Data"]]

\* the failure of the tool-selection call is raised again
call_tools_reraises(state, outcome) ==
    IF outcome.kind \in {"setup_error", "invoke_error"}
    THEN Raised(state, "llm client unavailable")
    ELSE LET tool_results == execute_tool_calls(outcome.calls, <<>>)
         IN Returned([state EXCEPT
                        !.tool_results = tool_results,
                        !.sources = IF tool_results # <<>>
                                    THEN tool_sources(tool_results)
                                    ELSE state.sources],
                     1, "none")

call_tools(state, outcome) ==
    IF outcome.kind = "setup_error"
    THEN Raised(state, "llm client unavailable")
    ELSE IF outcome.kind = "invoke_error"
    THEN Returned([state EXCEPT !.tool_results = <<>>, !.sources = <<>>], 1, "none")
    ELSE LET tool_results == execute_tool_calls(outcome.calls, <<>>)
         IN Returned([state EXCEPT
                        !.tool_results = tool_results,
                        !.sources = IF tool_results # <<>>
                                    THEN tool_sources(tool_results)
                                    ELSE state.sources],
                     1, "none")

NoDocsAnswer == "Sorry, I could not find relevant information in the documentation."
NoDataAnswer == "Sorry, I could not retrieve the requested data."

\* f"An error occurred while generating the answer: {str(e)}"
generator_error_answer(e) ==
    CASE e = "timeout" -> "An error occurred while generating the answer: timeout"
      [] OTHER -> "An error occurred while generating the answer: "

llm_answer(state, outcome) ==
    IF outcome.kind = "ok" THEN outcome.text ELSE generator_error_answer(outcome.text)

generate_answer(state, outcome) ==
    IF state.query_type = "documentation"
    THEN IF state.retrieved_docs = <<>>
         THEN Returned([state EXCEPT !.answer = NoDocsAnswer], 0, "retrieved_docs")
         ELSE Returned([state EXCEPT !.answer = llm_answer(state, outcome)],
                       1, "retrieved_docs")
    ELSE IF state.tool_results = <<>>
         THEN Returned([state EXCEPT !.answer = NoDataAnswer], 0, "tool_results")
         ELSE Returned([state EXCEPT !.answer = llm_answer(state, outcome)],
                       1, "tool_results")

\* make_cacheable_node(node_func): the node's result, cleaned
make_cacheable_node(result) ==
    [result EXCEPT !.state = clean_state_for_caching(result.state)]

(***************************************************************************)
(* The checkpoint store (RedisCheckpointSaver on a Redis keyspace, or the  *)
(* in-memory saver the graph falls back to)                                *)
(***************************************************************************)
ttl_checkpoints == 3600

\* the settings and the environment create_rag_graph can start under:
\* CHECKPOINT_ENABLED, CHECKPOINTER_TYPE, and whether Redis answers the ping
CheckpointSettings ==
    { [checkpoint_enabled |-> TRUE, checkpointer_type |-> "memory"],
      [checkpoint_enabled |-> TRUE, checkpointer_type |-> "redis"],
      [checkpoint_enabled |-> FALSE, checkpointer_type |-> "memory"] }

\* CHECKPOINT_ENABLED=false: the graph is compiled without a checkpointer.
\* The pipeline never reads a checkpoint back into a run (the input of
\* invoke sets every field of the state), so the behaviours that exercise
\* the result cache run under this setting.
CheckpointingOff ==
    [checkpoint_enabled |-> FALSE, checkpointer_type |-> "memory"]

\* which of the four setex calls of put fails: none (0) or the third (the
\* records under the checkpoint's own id are written, the latest alias is
\* not)
FailPoints == {0, 3}

\* the saver returns None when checkpointing is disabled
get_checkpointer_none_on_failure(cfg, redis_up) ==
    IF ~cfg.checkpoint_enabled THEN "none"
    ELSE IF cfg.checkpointer_type = "redis"
    THEN IF redis_up THEN "redis" ELSE "none"
    ELSE "memory"

\* get_checkpointer on first use (both globals None): which saver it returns
get_checkpointer(cfg, redis_up) ==
    IF ~cfg.checkpoint_enabled THEN "none"
    ELSE IF cfg.checkpointer_type = "redis"
    THEN IF redis_up THEN "redis" ELSE "memory"
    ELSE "memory"

\* every checkpoint of a thread goes under one key
make_key_without_id(prefix, thread_id, checkpoint_ns, checkpoint_id) ==
    prefix \o ":" \o thread_id \o ":" \o checkpoint_ns

\* the key does not name the thread
make_key_without_thread(prefix, thread_id, checkpoint_ns, checkpoint_id) ==
    prefix \o ":" \o checkpoint_ns \o ":" \o checkpoint_id

\* _make_key (prefix "checkpoint") and _make_metadata_key ("checkpoint_meta"):
\* f"{prefix}:{thread_id}:{checkpoint_ns}:{checkpoint_id}", without the last
\* part when checkpoint_id is None or empty
make_key(prefix, thread_id, checkpoint_ns, checkpoint_id) ==
    IF checkpoint_id \notin {None, ""}
    THEN prefix \o ":" \o thread_id \o ":" \o checkpoint_ns \o ":" \o checkpoint_id
    ELSE prefix \o ":" \o thread_id \o ":" \o checkpoint_ns

\* a stored key never expires
key_live_forever(r, time) == TRUE

\* a stored key is there until its expiry; the in-memory saver's entries
\* (persist) stay for the life of the process
key_live(r, time) == r.persist \/ time < r.expiry

\* redis SETEX: the value replaces what the key held and lives ttl seconds
\* (ttl 0 stands for the in-memory saver, which sets no expiry); keys that
\* have expired are gone
setex(db, key, ttl, value, time) ==
    {r \in db : r.key # key /\ key_live(r, time)}
    \cup {[key |-> key, value |-> value, expiry |-> time + ttl, persist |-> ttl = 0]}

\* what a GET of an absent key returns
NoBytes == <<>>

\* redis GET
redis_get(db, key, time) ==
    LET found == {r \in db : r.key = key /\ key_live(r, time)}
    IN IF found = {} THEN NoBytes ELSE (CHOOSE r \in found : TRUE).value

\* _clean_checkpoint_for_pickling
clean_checkpoint_for_pickling(checkpoint) ==
    [checkpoint EXCEPT !.channel_values = clean_state_for_caching(@)]

pickle_dumps(obj) == <<"pickle", obj>>

pickle_loads(data) == data[2]

Config(thread_id, checkpoint_id) ==
    [thread_id |-> thread_id, checkpoint_ns |-> "", checkpoint_id |-> checkpoint_id]

RECURSIVE apply_writes(_, _, _, _, _)
apply_writes(db, writes, ttl, fail_at, time) ==
    IF writes = <<>> \/ fail_at = 1 THEN db
    ELSE apply_writes(setex(db, Head(writes).key, ttl, Head(writes).value, time),
                      Tail(writes), ttl,
                      IF fail_at = 0 THEN 0 ELSE fail_at - 1, time)

\* the failure of a write escapes put
put_reraises(db, config, checkpoint, metadata, ttl, fail_at, time) ==
    LET thread_id == config.thread_id
        checkpoint_ns == config.checkpoint_ns
        checkpoint_id == checkpoint.id
        serialized_checkpoint == pickle_dumps(clean_checkpoint_for_pickling(checkpoint))
        serialized_metadata == pickle_dumps(metadata)
        writes ==
            << [key |-> make_key("checkpoint", thread_id, checkpoint_ns, checkpoint_id),
                value |-> serialized_checkpoint],
               [key |-> make_key("checkpoint_meta", thread_id, checkpoint_ns, checkpoint_id),
                value |-> serialized_metadata],
               [key |-> make_key("checkpoint", thread_id, checkpoint_ns, "latest"),
                value |-> serialized_checkpoint],
               [key |-> make_key("checkpoint_meta", thread_id, checkpoint_ns, "latest"),
                value |-> serialized_metadata] >>
    IN [db |-> apply_writes(db, writes, ttl, fail_at, time),
        config |-> IF fail_at = 0 THEN Config(thread_id, checkpoint_id) ELSE config,
        raised |-> fail_at # 0]

\* RedisCheckpointSaver.put: four SETEX calls in a try; the except branch
\* returns the caller's config
put(db, config, checkpoint, metadata, ttl, fail_at, time) ==
    LET thread_id == config.thread_id
        checkpoint_ns == config.checkpoint_ns
        checkpoint_id == checkpoint.id
        serialized_checkpoint == pickle_dumps(clean_checkpoint_for_pickling(checkpoint))
        serialized_metadata == pickle_dumps(metadata)
        writes ==
            << [key |-> make_key("checkpoint", thread_id, checkpoint_ns, checkpoint_id),
                value |-> serialized_checkpoint],
               [key |-> make_key("checkpoint_meta", thread_id, checkpoint_ns, checkpoint_id),
                value |-> serialized_metadata],
               [key |-> make_key("checkpoint", thread_id, checkpoint_ns, "latest"),
                value |-> serialized_checkpoint],
               [key |-> make_key("checkpoint_meta", thread_id, checkpoint_ns, "latest"),
                value |-> serialized_metadata] >>
    IN [db |-> apply_writes(db, writes, ttl, fail_at, time),
        config |-> IF fail_at = 0 THEN Config(thread_id, checkpoint_id) ELSE config,
        raised |-> FALSE]

\* metadata = {} and the result None of get_tuple
EmptyMetadata == <<>>

NoTuple == <<>>

\* a get without an id reads the bare thread key instead of the alias
get_tuple_no_default(db, config, redis_ok, time) ==
    IF ~redis_ok THEN NoTuple
    ELSE LET thread_id == config.thread_id
             checkpoint_ns == config.checkpoint_ns
             checkpoint_id == config.checkpoint_id
             serialized_checkpoint ==
                 redis_get(db, make_key("checkpoint", thread_id, checkpoint_ns,
                                        checkpoint_id), time)
             serialized_metadata ==
                 redis_get(db, make_key("checkpoint_meta", thread_id, checkpoint_ns,
                                        checkpoint_id), time)
         IN IF serialized_checkpoint = NoBytes THEN NoTuple
            ELSE << [config |-> Config(thread_id, pickle_loads(serialized_checkpoint).id),
                     checkpoint |-> pickle_loads(serialized_checkpoint),
                     metadata |-> IF serialized_metadata = NoBytes THEN EmptyMetadata
                                  ELSE pickle_loads(serialized_metadata),
                     parent_config |-> None] >>

\* RedisCheckpointSaver.get_tuple; a failing Redis read ends in the except
\* branch
get_tuple(db, config, redis_ok, time) ==
    IF ~redis_ok THEN NoTuple
    ELSE LET thread_id == config.thread_id
             checkpoint_ns == config.checkpoint_ns
             checkpoint_id == IF config.checkpoint_id \in {None, ""}
                              THEN "latest" ELSE config.checkpoint_id
             serialized_checkpoint ==
                 redis_get(db, make_key("checkpoint", thread_id, checkpoint_ns,
                                        checkpoint_id), time)
             serialized_metadata ==
                 redis_get(db, make_key("checkpoint_meta", thread_id, checkpoint_ns,
                                        checkpoint_id), time)
         IN IF serialized_checkpoint = NoBytes THEN NoTuple
            ELSE << [config |-> Config(thread_id, pickle_loads(serialized_checkpoint).id),
                     checkpoint |-> pickle_loads(serialized_checkpoint),
                     metadata |-> IF serialized_metadata = NoBytes THEN EmptyMetadata
                                  ELSE pickle_loads(serialized_metadata),
                     parent_config |-> None] >>

(***************************************************************************)
(* Session memory (MemoryService on its in-memory store)                   *)
(***************************************************************************)
SessionNames == {"work", "session_alice", "session_user_123"}

history_limit == 10

\* LRANGE start end on a list, as InMemoryStore.lrange slices it
\* (items[start:] when end is -1, items[start:end+1] otherwise) and as Redis
\* does: a negative index counts from the end, an index before the first
\* element is the first
list_range(items, start, end) ==
    LET first == IF start >= 0 THEN start
                 ELSE IF Len(items) + start > 0 THEN Len(items) + start ELSE 0
        last == IF end < 0 THEN Len(items) + end
                ELSE IF end < Len(items) - 1 THEN end ELSE Len(items) - 1
    IN SubSeq(items, first + 1, last + 1)

\* MemoryService.get_history over the list of a session: "if limit" sends a
\* limit of 0 (like None) to the branch that reads the whole list
get_history(h, limit) ==
    IF limit = 0 THEN list_range(h, 0, -1) ELSE list_range(h, 0 - limit, -1)

llm_role(role) ==
    CASE role = "user" -> "human"
      [] role = "assistant" -> "ai"
      [] OTHER -> None

get_messages_for_llm(h, limit) ==
    LET recent == SelectSeq(get_history(h, limit),
                            LAMBDA m : m.role \in {"user", "assistant"})
    IN [i \in 1..Len(recent) |-> <<llm_role(recent[i].role), recent[i].content>>]

\* the message is stored twice
add_message_twice(h, role, content) ==
    Append(Append(h, [role |-> role, content |-> content]),
           [role |-> role, content |-> content])

add_message(h, role, content) == Append(h, [role |-> role, content |-> content])

(***************************************************************************)
(* State of the program                                                    *)
(***************************************************************************)
VARIABLES
    now,            \* the clock, in seconds
    cache,          \* the result cache: entries (step, key) -> value, expiry
    history,        \* chat history per session
    runs,           \* process_query calls so far
    pc,             \* position of the current process_query call
    session,        \* process_query's local session_id
    state,          \* the pipeline state of the current run
    exc,            \* text of the exception that escaped graph.invoke
    result,         \* what process_query returned
    walk,           \* steps of the current run in order: step, hit (served from
                    \* the cache), age (seconds since the write of the entry
                    \* the lookup found, live or expired; -1 without one),
                    \* outcome (what the collaborator did), raised, safe
                    \* (is_safe_query when the step ended)
    invoked,        \* step function invocations of the current run, per step
    called,         \* collaborator calls of the current run, per step
    gen_read,       \* evidence field the Generator read in the current run
    graph,          \* the compiled graph (_graph): the settings and the
                    \* environment it was created under, and its checkpointer
    store,          \* the keyspace of the checkpoint store
    next_id,        \* checkpoints created so far, plus one
    puts,           \* the checkpointer's put calls in order: config, checkpoint,
                    \* metadata, time, fail_at, returned (config), run
    got,            \* the last get_tuple call: config, time, redis_ok, tuple
    args,           \* user_id and session_id as the caller passed them to the
                    \* current process_query call
    finance_api,    \* the module global _finance_api of tool_definitions: the
                    \* user_id its MockFinanceAPI was created for
    threads,        \* the calls of call_tools in progress, one per thread
    invocations,    \* tool_func.invoke calls in order: thread, tool, the user
                    \* the call ran against, ok
    snapshot,       \* the state a node function returned, and the settings
                    \* the graph was compiled under
    cached,         \* what the result cache stored for the snapshot
    stored,         \* what the checkpoint store stored for the snapshot
    writers,        \* the put calls in progress, one per writer: thread_id,
                    \* checkpoint, metadata, writes done
    begun,          \* the put calls begun so far: thread_id, checkpoint,
                    \* metadata
    process,        \* the module globals of one process (_redis_checkpointer,
                    \* _memory_checkpointer, _graph), its settings, and
                    \* whether Redis answers
    saver_calls,    \* what the calls of get_checkpointer returned so far
    backends,       \* the two stores of chat history side by side: the
                    \* InMemoryStore and a Redis list per session
    replies         \* what the last MemoryService call returned on each

toolvars == <<finance_api, threads, invocations>>

cleanvars == <<snapshot, cached, stored>>

memvars == <<backends, replies>>

servicevars == <<writers, begun, process, saver_calls, backends, replies>>

vars == <<now, cache, history, runs, pc, session, state,
          exc, result, walk, invoked, called, gen_read,
          graph, store, next_id, puts, got, args, toolvars, cleanvars, servicevars>>

\* the variables of the pipeline
pipevars == <<now, cache, history, runs, pc, session, state,
              exc, result, walk, invoked, called, gen_read,
              graph, store, next_id, puts, got, args>>

ckvars == <<graph, store, next_id, puts, got>>

NoGraph ==
    [settings |-> [checkpoint_enabled |-> FALSE, checkpointer_type |-> "unset"],
     redis_up |-> FALSE, checkpointer |-> "unset"]

NoGet ==
    [asked |-> FALSE, config |-> [thread_id |-> None, checkpoint_ns |-> "",
                                  checkpoint_id |-> None],
     time |-> 0, redis_ok |-> TRUE, tuple |-> <<>>]

NoResult ==
    [answer |-> None, sources |-> <<>>, query_type |-> None,
     routing_reason |-> Missing, session_id |-> None]

NoArgs == [user_id |-> None, session_id |-> None]

\* threads that call process_query at the same time
Threads == {"t1", "t2"}

\* a thread that is not inside call_tools
IdleThread ==
    [pc |-> "idle", user_id |-> None, runs |-> 0, requested |-> <<>>,
     tool_calls |-> <<>>, tool_results |-> <<>>, context |-> <<>>]

\* no node has returned yet
NoSnapshot == <<>>

\* sessions whose chat history is kept
MemSessions == {"work", "session_alice"}

\* f"chat_history:{session_id}"
get_key(session_id) == "chat_history:" \o session_id

\* both stores empty: InMemoryStore() and a Redis without chat history
NoMessages ==
    [memory |-> [store |-> [k \in {get_key(sid) : sid \in MemSessions} |->
                              [present |-> FALSE, items |-> <<>>]],
                 ttls |-> [k \in {get_key(sid) : sid \in MemSessions} |->
                              [present |-> FALSE, at |-> 0]]],
     redis |-> [k \in {get_key(sid) : sid \in MemSessions} |->
                   [present |-> FALSE, items |-> <<>>, volatile |-> FALSE,
                    expiry |-> 0]]]

\* no call has returned since the clock moved, or none at all
NoReply ==
    [op |-> "none", n |-> 0, key |-> get_key("work"), limit |-> 0,
     memory |-> <<>>, redis |-> <<>>]

\* a process that has not called get_checkpointer or get_rag_graph
NoProcess ==
    [settings |-> [checkpoint_enabled |-> FALSE, checkpointer_type |-> "unset"],
     redis_up |-> FALSE,
     redis_checkpointer |-> None,
     memory_checkpointer |-> None,
     rag_graph |-> None]

\* callers of RedisCheckpointSaver.put that share one Redis
Writers == {"w1", "w2"}

Init ==
    /\ now = 0
    /\ cache = {}
    /\ history = [s \in SessionNames |-> <<>>]
    /\ runs = 0
    /\ pc = "idle"
    /\ session = None
    /\ state = NoState
    /\ exc = None
    /\ result = NoResult
    /\ walk = <<>>
    /\ invoked = [s \in Steps |-> 0]
    /\ called = [s \in Steps |-> 0]
    /\ gen_read = "none"
    /\ graph = NoGraph
    /\ store = {}
    /\ next_id = 1
    /\ puts = <<>>
    /\ got = NoGet
    /\ args = NoArgs
    /\ finance_api = None
    /\ threads = [t \in Threads |-> IdleThread]
    /\ invocations = <<>>
    /\ snapshot = NoSnapshot
    /\ cached = NoSnapshot
    /\ stored = NoSnapshot
    /\ writers = [w \in Writers |-> 0]
    /\ begun = <<>>
    /\ process = NoProcess
    /\ saver_calls = <<>>
    /\ backends = NoMessages
    /\ replies = NoReply

(***************************************************************************)
(* The result cache, as the compiled graph uses it                         *)
(***************************************************************************)
\* the generator node registered with the tools TTL
node_ttl_generator_as_tools(step) ==
    CASE step = "router" -> ttl_router
      [] step = "rag" -> ttl_rag
      [] step = "tools" -> ttl_tools
      [] step = "generator" -> ttl_tools

node_ttl(step) ==
    CASE step = "router" -> ttl_router
      [] step = "rag" -> ttl_rag
      [] step = "tools" -> ttl_tools
      [] step = "generator" -> ttl_generator

\* the lookup goes by the key alone
cache_lookup_any_step(c, step, key, time) ==
    {e \in c : e.key = key /\ time < e.expiry}

\* entries of (step, key) that have not expired
cache_lookup(c, step, key, time) ==
    {e \in c : e.step = step /\ e.key = key /\ time < e.expiry}

\* a lookup drops the entry of (step, key) it finds expired
cache_evict(c, step, key, time) ==
    {e \in c : ~(e.step = step /\ e.key = key /\ ~(time < e.expiry))}

\* (written is the time of the write, kept beside the expiry the cache stores)
cache_set(c, step, key, value, time) ==
    {e \in c : ~(e.step = step /\ e.key = key)}
        \cup {[step |-> step, key |-> key, value |-> value,
               written |-> time, expiry |-> time + node_ttl(step)]}

\* seconds since the entry of (step, key) was written; -1 without an entry
entry_age(c, step, key, time) ==
    LET found == {e \in c : e.step = step /\ e.key = key}
    IN IF found = {} THEN -1 ELSE time - (CHOOSE e \in found : TRUE).written

\* the writes of a node (its returned dictionary) applied to the state
Merge(current, writes) ==
    [f \in DOMAIN current |-> IF f \in DOMAIN writes THEN writes[f] ELSE current[f]]

\* the rag node wired to the tools node instead of the generator
next_node_rag_to_tools(step, st) ==
    CASE step = "router" ->
            (CASE route_decision(st) = "rag" -> "rag"
               [] route_decision(st) = "tools" -> "tools"
               [] route_decision(st) = "end" -> "END")
      [] step = "rag" -> "tools"
      [] step = "tools" -> "generator"
      [] step = "generator" -> "END"

\* the tools node wired to the rag node instead of the generator
next_node_tools_to_rag(step, st) ==
    CASE step = "router" ->
            (CASE route_decision(st) = "rag" -> "rag"
               [] route_decision(st) = "tools" -> "tools"
               [] route_decision(st) = "end" -> "END")
      [] step = "rag" -> "generator"
      [] step = "tools" -> "rag"
      [] step = "generator" -> "END"

\* edges of the graph: the conditional edge after router, the plain edges
next_node(step, st) ==
    CASE step = "router" ->
            (CASE route_decision(st) = "rag" -> "rag"
               [] route_decision(st) = "tools" -> "tools"
               [] route_decision(st) = "end" -> "END")
      [] step = "rag" -> "generator"
      [] step = "tools" -> "generator"
      [] step = "generator" -> "END"

(***************************************************************************)
(* Checkpoints of the compiled graph: one when invoke takes its input and  *)
(* one after every completed step                                          *)
(***************************************************************************)
\* checkpoint ids are unique and ordered by creation
CheckpointIds ==
    << "ckpt-01", "ckpt-02", "ckpt-03", "ckpt-04", "ckpt-05", "ckpt-06",
       "ckpt-07", "ckpt-08", "ckpt-09", "ckpt-10", "ckpt-11", "ckpt-12",
       "ckpt-13", "ckpt-14", "ckpt-15", "ckpt-16" >>

CheckpointOf(id, st) == [v |-> 1, id |-> id, channel_values |-> st]

MetadataOf(source, step) == << <<"source", source>>, <<"step", step>> >>

\* put calls that met a failing write so far
FailedPuts == Cardinality({i \in DOMAIN puts : puts[i].fail_at # 0})

\* the thread is the user's, not the session's
invoke_config_by_user(session_id, user_id) == Config(user_id, None)

\* the config process_query hands to graph.invoke: thread_id = session_id
invoke_config(session_id, user_id) == Config(session_id, None)

\* the failures a put of the saver can meet
PutFailures(saver) ==
    IF saver = "redis" /\ FailedPuts < MaxPutFailures THEN FailPoints ELSE {0}

\* the saver's put: RedisCheckpointSaver.put, or the in-memory saver, which
\* neither fails nor expires
saver_put(saver, db, config, id, st, source, step, fail_at, time) ==
    IF saver = "redis"
    THEN put(db, config, CheckpointOf(id, st),
             MetadataOf(source, step), ttl_checkpoints, fail_at, time)
    ELSE put(db, config, CheckpointOf(id, st),
             MetadataOf(source, step), 0, 0, time)

\* the engine saves the state st of the thread; raised tells whether the
\* saver let an exception out
SaveCheckpoint(saver, session_id, st, source, step, fail_at, time, run) ==
    IF saver \in {"none", "unset"}
    THEN UNCHANGED <<store, next_id, puts>>
    ELSE LET id == CheckpointIds[next_id]
             config == invoke_config(session_id, st.user_id)
             res == saver_put(saver, store, config, id, st, source, step,
                              fail_at, time)
         IN /\ store' = res.db
            /\ next_id' = next_id + 1
            /\ puts' = Append(puts,
                          [config |-> config,
                           checkpoint |-> CheckpointOf(id, st),
                           metadata |-> MetadataOf(source, step),
                           time |-> time, fail_at |-> fail_at,
                           returned |-> res.config, raised |-> res.raised,
                           run |-> run])

SaveRaised(saver, session_id, st, fail_at, time) ==
    /\ saver \notin {"none", "unset"}
    /\ saver_put(saver, store, invoke_config(session_id, st.user_id),
                 CheckpointIds[next_id], st, "loop", 0, fail_at, time).raised

CheckpointError == "checkpoint write failed"

(***************************************************************************)
(* Actions                                                                 *)
(***************************************************************************)
\* process_query up to graph.invoke, called delay seconds after the previous
\* call returned, with the guardrail's verdict on the query
BeginQuery(max_runs, delay, user_query, user_id_arg, session_id_arg, safe, message, cfg, redis_up, fail_at) ==
    LET \* "if not user_id": None and the empty string both count as omitted
        user_id == IF user_id_arg \in {None, ""} THEN demo_user_id ELSE user_id_arg
        \* get_rag_graph: the graph is created on the first call
        compiled == IF graph.checkpointer = "unset"
                    THEN [settings |-> cfg, redis_up |-> redis_up,
                          checkpointer |-> get_checkpointer(cfg, redis_up)]
                    ELSE graph
        session_id == IF session_id_arg \in {None, ""}
                      THEN session_of_user(user_id) ELSE session_id_arg
        chat_history == get_messages_for_llm(history[session_id], history_limit)
    IN /\ pc \in {"idle", "done"}
       /\ runs < max_runs
       /\ runs = 0 => delay = 0
       /\ now' = now + delay
       /\ runs' = runs + 1
       /\ session' = session_id
       /\ history' = [history EXCEPT
                        ![session_id] = add_message(@, "user", user_query)]
       /\ state' = initial_state(user_query, user_id, session_id, chat_history,
                                 safe, message)
       /\ graph' = compiled
       /\ fail_at \in PutFailures(compiled.checkpointer)
       /\ SaveCheckpoint(compiled.checkpointer, session_id, state', "input", 0,
                         fail_at, now', runs')
       /\ got' = NoGet
       /\ IF SaveRaised(compiled.checkpointer, session_id, state', fail_at, now')
          THEN pc' = "failed" /\ exc' = CheckpointError
          ELSE pc' = "router" /\ exc' = None
       /\ result' = NoResult
       /\ walk' = <<>>
       /\ invoked' = [s \in Steps |-> 0]
       /\ called' = [s \in Steps |-> 0]
       /\ gen_read' = "none"
       /\ cache' = cache
       /\ args' = [user_id |-> user_id_arg, session_id |-> session_id_arg]
       /\ UNCHANGED <<toolvars, cleanvars, servicevars>>

StartRun ==
    \E r \in Requests, delay \in Delays :
        BeginQuery(MaxRuns, delay, r.user_query, r.user_id, r.session_id, TRUE, None,
                   CheckpointingOff, TRUE, 0)

\* One step of the compiled graph: cache lookup, then the cached writes or the
\* node function, write-back, and the edge out of the node.
RunNode(step, Outcomes, node_func(_, _)) ==
    /\ pc = step
    /\ LET key == cache_key_for_state(state)
           live == cache_lookup(cache, step, key, now)
       IN IF live # {}
          THEN \E fail_at \in PutFailures(graph.checkpointer) :
               LET entry == CHOOSE e \in live : TRUE
               IN /\ state' = Merge(state, entry.value)
                  /\ cache' = cache
                  /\ walk' = Append(walk, [step |-> step, hit |-> TRUE,
                                            age |-> now - entry.written,
                                            outcome |-> "cached", raised |-> FALSE,
                                            safe |-> state'.is_safe_query])
                  /\ SaveCheckpoint(graph.checkpointer, session, state', "loop",
                                    Len(walk'), fail_at, now, runs)
                  /\ IF SaveRaised(graph.checkpointer, session, state', fail_at, now)
                     THEN pc' = "failed" /\ exc' = CheckpointError
                     ELSE pc' = next_node(step, state') /\ exc' = exc
                  /\ UNCHANGED <<invoked, called, gen_read>>
          ELSE \E outcome \in Outcomes, fail_at \in PutFailures(graph.checkpointer) :
               LET raw == node_func(state, outcome)
                   res == make_cacheable_node(raw)
                   evicted == cache_evict(cache, step, key, now)
               IN /\ invoked' = [invoked EXCEPT ![step] = @ + 1]
                  /\ called' = [called EXCEPT ![step] = @ + res.called]
                  /\ gen_read' = IF res.read # "none" THEN res.read ELSE gen_read
                  /\ IF res.raised
                     THEN /\ pc' = "failed"
                          /\ exc' = res.error
                          /\ state' = state
                          /\ cache' = evicted
                          /\ fail_at = 0
                          /\ UNCHANGED <<store, next_id, puts>>
                     ELSE /\ state' = Merge(state, res.state)
                          /\ cache' = cache_set(evicted, step, key, res.state, now)
                          /\ SaveCheckpoint(graph.checkpointer, session, state', "loop",
                                            Len(walk) + 1, fail_at, now, runs)
                          /\ IF SaveRaised(graph.checkpointer, session, state',
                                           fail_at, now)
                             THEN pc' = "failed" /\ exc' = CheckpointError
                             ELSE pc' = next_node(step, state') /\ exc' = exc
                  /\ walk' = Append(walk, [step |-> step, hit |-> FALSE,
                                            age |-> entry_age(cache, step, key, now),
                                            outcome |-> outcome.kind,
                                            raised |-> res.raised,
                                            safe |-> state'.is_safe_query])
    /\ UNCHANGED <<now, history, runs, session, result, graph, got, args>>
    /\ UNCHANGED <<toolvars, cleanvars, servicevars>>

RouterStep == RunNode("router", RouterResponses, route_query)

RagStep == RunNode("rag", SearchOutcomes, rag_retrieve)

ToolsStep == RunNode("tools", ToolOutcomes, call_tools)

GeneratorStep == RunNode("generator", GeneratorOutcomes, generate_answer)

\* process_query after graph.invoke returned
FinishRun ==
    /\ pc = "END"
    /\ history' = [history EXCEPT
                     ![session] = add_message(@, "assistant", state.answer)]
    /\ result' = [answer |-> state.answer,
                  sources |-> state.sources,
                  query_type |-> state.query_type,
                  routing_reason |-> state.routing_reason,
                  session_id |-> session]
    /\ pc' = "done"
    /\ UNCHANGED <<now, cache, runs, session, state, exc,
                   walk, invoked, called, gen_read>>
    /\ UNCHANGED <<ckvars, args, toolvars, cleanvars, servicevars>>

\* f"An error occurred while processing your query: {str(e)}"
process_error_answer(e) ==
    CASE e = "llm client unavailable" ->
            "An error occurred while processing your query: llm client unavailable"
      [] OTHER -> "An error occurred while processing your query: "

\* the error result leaves the session out
error_result_without_session(e, session_id) ==
    [answer |-> process_error_answer(e),
     sources |-> <<>>,
     query_type |-> "error",
     routing_reason |-> Missing,
     session_id |-> None]

\* error_result of process_query's except branch
error_result(e, session_id) ==
    [answer |-> process_error_answer(e),
     sources |-> <<>>,
     query_type |-> "error",
     routing_reason |-> Missing,
     session_id |-> session_id]

\* process_query's except branch
FailRun ==
    /\ pc = "failed"
    /\ result' = error_result(exc, session)
    /\ pc' = "done"
    /\ UNCHANGED <<now, cache, history, runs, session,
                   state, exc, walk, invoked, called, gen_read>>
    /\ UNCHANGED <<ckvars, args, toolvars, cleanvars, servicevars>>

Next ==
    \/ StartRun
    \/ RouterStep
    \/ RagStep
    \/ ToolsStep
    \/ GeneratorStep
    \/ FinishRun
    \/ FailRun

Spec == Init /\ [][Next]_vars

(***************************************************************************)
(* The pipeline behind a guardrail.  The guardrail check(query) ->         *)
(* (is_safe, message) is a collaborator that the sources only declare      *)
(* (AgentState.is_safe_query, AgentState.guardrail_message,                *)
(* RAGSettings.guardrails_enabled); its verdict enters the state before    *)
(* the graph runs.                                                         *)
(***************************************************************************)
GuardrailVerdicts ==
    { [is_safe |-> TRUE, message |-> None],
      [is_safe |-> FALSE, message |-> "This request cannot be processed."] }

GuardedStartRun ==
    \E r \in Requests, verdict \in GuardrailVerdicts :
        BeginQuery(MaxRuns, 0, r.user_query, r.user_id, r.session_id,
                   verdict.is_safe, verdict.message,
                   CheckpointingOff, TRUE, 0)

NextGuard ==
    \/ GuardedStartRun
    \/ RouterStep
    \/ RagStep
    \/ ToolsStep
    \/ GeneratorStep
    \/ FinishRun
    \/ FailRun

SpecGuard == Init /\ [][NextGuard]_vars

(***************************************************************************)
(* One caller repeating one question while the cache entries age, with     *)
(* every reply the classification call can give: besides RouterResponses,  *)
(* a well-formed object carrying another query_type string or null.  The   *)
(* waits are chosen so that the entries of the four steps, which have      *)
(* different TTLs, are rewritten at different times.                       *)
(***************************************************************************)
ClassifierResponses ==
    RouterResponses \cup
    { [kind |-> "object", query_type |-> "billing", reasoning |-> "about an invoice"],
      [kind |-> "object", query_type |-> None, reasoning |-> Missing] }

AgingDelays == {0, ttl_rag + ttl_tools, ttl_router - (ttl_rag + ttl_tools)}

AgingStartRun ==
    \E delay \in AgingDelays :
        BeginQuery(MaxAgingRuns, delay, "How do I reset my password?", None, None,
                   TRUE, None, CheckpointingOff, TRUE, 0)

ClassifierStep == RunNode("router", ClassifierResponses, route_query)

NextAging ==
    \/ AgingStartRun
    \/ ClassifierStep
    \/ RagStep
    \/ ToolsStep
    \/ GeneratorStep
    \/ FinishRun
    \/ FailRun

SpecAging == Init /\ [][NextAging]_vars

(***************************************************************************)
(* The pipeline with a checkpointer: the graph is created under any of the *)
(* settings, with Redis up or down; writes of the Redis saver can fail;    *)
(* between calls a client reads checkpoints back with get_tuple.           *)
(***************************************************************************)
CkptRequests ==
    { Request("How do I reset my password?", None, None),
      Request("How do I reset my password?", "alice", "work") }

CkptDelays == {0, ttl_checkpoints}

CkptRouterResponses ==
    {r \in RouterResponses :
        r.kind = "client_error" \/ r.query_type \in {"documentation", "operational"}}

CkptSearchOutcomes == {o \in SearchOutcomes : o.kind = "ok" /\ o.results # <<>>}

CkptToolOutcomes == {o \in ToolOutcomes : o.kind = "ok" /\ Len(o.calls) = 1}

CkptGeneratorOutcomes == {o \in GeneratorOutcomes : o.kind = "ok"}

\* the environments the process starts in: Redis is down only where it matters
StartupEnvironments ==
    {env \in [settings : CheckpointSettings, redis_up : BOOLEAN] :
        ~env.redis_up => (env.settings.checkpoint_enabled
                          /\ env.settings.checkpointer_type = "redis")}

CkptStartRun ==
    \E r \in CkptRequests, delay \in CkptDelays, env \in StartupEnvironments,
       fail_at \in FailPoints :
        /\ graph.checkpointer # "unset" =>
              (env.settings = graph.settings /\ env.redis_up = graph.redis_up)
        /\ BeginQuery(MaxCkptRuns, delay, r.user_query, r.user_id, r.session_id,
                      TRUE, None, env.settings, env.redis_up, fail_at)

CkptRouterStep == RunNode("router", CkptRouterResponses, route_query)

CkptRagStep == RunNode("rag", CkptSearchOutcomes, rag_retrieve)

CkptToolsStep == RunNode("tools", CkptToolOutcomes, call_tools)

CkptGeneratorStep == RunNode("generator", CkptGeneratorOutcomes, generate_answer)

\* what a client asks for: no id, the alias, and the first two checkpoints
\* ever written
AskedIds ==
    {None, "latest"} \cup {puts[i].checkpoint.id : i \in DOMAIN puts \cap {1, 2}}

\* a client of the saver reads a checkpoint of a thread, by id, by the
\* latest alias or without an id
GetTuple ==
    /\ pc = "done"
    /\ ~got.asked
    /\ graph.checkpointer \in {"memory", "redis"}
    /\ \E thread_id \in {puts[i].config.thread_id : i \in DOMAIN puts},
          checkpoint_id \in AskedIds, redis_ok \in BOOLEAN :
          /\ ~redis_ok => (graph.checkpointer = "redis" /\ checkpoint_id = None)
          /\ got' = [asked |-> TRUE,
                     config |-> Config(thread_id, checkpoint_id),
                     time |-> now,
                     redis_ok |-> redis_ok,
                     tuple |-> get_tuple(store, Config(thread_id, checkpoint_id),
                                         redis_ok, now)]
    /\ UNCHANGED <<now, cache, history, runs, pc, session, state, exc, result, walk,
                   invoked, called, gen_read, graph, store, next_id, puts>>
    /\ UNCHANGED <<args, toolvars, cleanvars, servicevars>>

NextCkpt ==
    \/ CkptStartRun
    \/ CkptRouterStep
    \/ CkptRagStep
    \/ CkptToolsStep
    \/ CkptGeneratorStep
    \/ FinishRun
    \/ FailRun
    \/ GetTuple

SpecCkpt == Init /\ [][NextCkpt]_vars

(***************************************************************************)
(* An operational question repeated by two callers while the entries of    *)
(* the tools step (the shortest TTL) expire and those of the generator     *)
(* step are still live.                                                    *)
(***************************************************************************)
StaleRequests ==
    { Request("What's my account balance?", None, None),
      Request("What's my account balance?", "alice", None) }

StaleDelays == {0, ttl_tools, 2 * ttl_tools}

StaleToolOutcomes == {o \in ToolOutcomes : o.kind = "ok"}

StaleStartRun ==
    \E r \in StaleRequests, delay \in StaleDelays :
        BeginQuery(MaxStaleRuns, delay, r.user_query, r.user_id, r.session_id,
                   TRUE, None, CheckpointingOff, TRUE, 0)

StaleToolsStep == RunNode("tools", StaleToolOutcomes, call_tools)

StaleGeneratorStep == RunNode("generator", CkptGeneratorOutcomes, generate_answer)

NextStale ==
    \/ StaleStartRun
    \/ CkptRouterStep
    \/ CkptRagStep
    \/ StaleToolsStep
    \/ StaleGeneratorStep
    \/ FinishRun
    \/ FailRun

SpecStale == Init /\ [][NextStale]_vars

(***************************************************************************)
(* Every process_query call runs to its return: one question asked again  *)
(* and again, under every guardrail verdict, cache state and kind of       *)
(* collaborator outcome, with the Redis saver (whose writes after a step   *)
(* may fail) or without a saver when Redis is down.  A call is a           *)
(* sequential function: once graph.invoke has started, the statement that  *)
(* is enabled is executed, and process_query returns after the graph run   *)
(* ended or raised.                                                        *)
(***************************************************************************)
LiveRequests == { Request("What's my account balance?", None, None) }

LiveEnvironments ==
    {env \in StartupEnvironments : env.settings.checkpointer_type = "redis"}

\* the classifier fails, answers outside the format, or routes to the tools
LiveRouterResponses ==
    {r \in RouterResponses :
        r.kind \in {"client_error", "unparsable"} \/ r.query_type = "operational"}

\* the search behind the rag step fails (no documents)
LiveSearchOutcomes == {o \in SearchOutcomes : o.kind = "error"}

\* the tools step fails before or inside its try, or runs at most one call
LiveToolOutcomes == {o \in ToolOutcomes : o.kind # "ok" \/ Len(o.calls) = 1}

LiveStartRun ==
    \E r \in LiveRequests, verdict \in GuardrailVerdicts, env \in LiveEnvironments :
        /\ graph.checkpointer # "unset" =>
              (env.settings = graph.settings /\ env.redis_up = graph.redis_up)
        /\ BeginQuery(MaxLiveRuns, 0, r.user_query, r.user_id, r.session_id,
                      verdict.is_safe, verdict.message,
                      env.settings, env.redis_up, 0)

LiveRouterStep == RunNode("router", LiveRouterResponses, route_query)
LiveRagStep == RunNode("rag", LiveSearchOutcomes, rag_retrieve)
LiveToolsStep == RunNode("tools", LiveToolOutcomes, call_tools)
LiveGeneratorStep == RunNode("generator", GeneratorOutcomes, generate_answer)

\* the next statement of the call in progress (at most one is enabled)
Advance ==
    \/ LiveRouterStep
    \/ LiveRagStep
    \/ LiveToolsStep
    \/ LiveGeneratorStep
    \/ FinishRun
    \/ FailRun

NextLive ==
    \/ LiveStartRun
    \/ Advance

SpecLive == Init /\ [][NextLive]_vars /\ WF_vars(Advance)

(***************************************************************************)
(* The ids of a call: one question asked with the user id and the session  *)
(* id omitted (None), empty or given, with the Redis saver.  A later call  *)
(* finds the results of an earlier one in the cache.                       *)
(***************************************************************************)
SessionRequests ==
    { Request("How do I reset my password?", None, None),
      Request("How do I reset my password?", "", ""),
      Request("How do I reset my password?", "alice", None),
      Request("How do I reset my password?", "alice", "work") }

SessionEnvironments ==
    {env \in StartupEnvironments :
        env.settings.checkpointer_type = "redis" /\ env.redis_up}

\* the classifier fails or names the documentation route
SessionRouterResponses ==
    {r \in RouterResponses : r.kind = "client_error" \/ r.query_type = "documentation"}

SessionStartRun ==
    \E r \in SessionRequests, env \in SessionEnvironments :
        BeginQuery(MaxSessionRuns, 0, r.user_query, r.user_id, r.session_id,
                   TRUE, None, env.settings, env.redis_up, 0)

SessionRouterStep == RunNode("router", SessionRouterResponses, route_query)
SessionRagStep == RunNode("rag", LiveSearchOutcomes, rag_retrieve)
SessionGeneratorStep == RunNode("generator", GeneratorOutcomes, generate_answer)

NextSession ==
    \/ SessionStartRun
    \/ SessionRouterStep
    \/ SessionRagStep
    \/ SessionGeneratorStep
    \/ FinishRun
    \/ FailRun

SpecSession == Init /\ [][NextSession]_vars

(***************************************************************************)
(* call_tools statement by statement, executed by two threads that serve   *)
(* two users.  The pipeline specifications above run one call at a time,   *)
(* where set_user_context always precedes the tool calls of the same run;  *)
(* here the statements of two runs interleave, and the module global       *)
(* _finance_api of tool_definitions.py is what they share.                 *)
(***************************************************************************)
\* state["user_id"] of the run a thread executes
ThreadUser(t) == IF t = "t1" THEN "alice" ELSE demo_user_id

\* response.tool_calls of the tool-selection call
ToolCallLists ==
    {o.calls : o \in {x \in ToolOutcomes : x.kind = "ok"}}
        \cup {<<TCall("get_account_balance", FALSE), TCall("get_transactions", TRUE)>>}

\* context_parts of generate_answer's operational branch
RECURSIVE context_parts(_)
context_parts(tool_results) ==
    IF tool_results = <<>> THEN <<>>
    ELSE LET r == Head(tool_results)
         IN <<<<"Tool", r.tool>>,
              IF r.outcome = "result" THEN <<"Data", r.tool>> ELSE <<"Error", r.tool>>>>
            \o context_parts(Tail(tool_results))

\* call_tools up to set_user_context(user_id)
ToolsEnter(t) ==
    /\ threads[t].pc \in {"idle", "done", "raised"}
    /\ threads[t].runs < MaxToolRuns
    /\ finance_api' = ThreadUser(t)
    /\ threads' = [threads EXCEPT ![t] =
                      [IdleThread EXCEPT !.pc = "bind", !.user_id = ThreadUser(t),
                                         !.runs = threads[t].runs + 1]]
    /\ UNCHANGED <<invocations, pipevars, cleanvars, servicevars>>

\* create_llm_client, bind_tools and the tool-selection call
ToolsSelect(t) ==
    /\ threads[t].pc = "bind"
    /\ \/ \* create_llm_client raises before the try: the node raises
          threads' = [threads EXCEPT ![t].pc = "raised"]
       \/ \* llm_with_tools.invoke raises inside the try
          threads' = [threads EXCEPT ![t].pc = "returned"]
       \/ \E calls \in ToolCallLists :
             threads' = [threads EXCEPT ![t].pc = "loop",
                                        ![t].requested = calls,
                                        ![t].tool_calls = calls]
    /\ UNCHANGED <<finance_api, invocations, pipevars, cleanvars, servicevars>>

\* one pass of "for tool_call in response.tool_calls": a registered tool is
\* invoked and reads _finance_api at that moment
ToolsInvoke(t) ==
    /\ threads[t].pc = "loop"
    /\ threads[t].tool_calls # <<>>
    /\ LET tool_call == Head(threads[t].tool_calls)
       IN /\ threads' = [threads EXCEPT
                           ![t].tool_calls = Tail(@),
                           ![t].tool_results = execute_tool_calls(<<tool_call>>, @)]
          /\ invocations' =
                IF tool_call.name \in FINANCE_TOOLS
                THEN Append(invocations,
                            [thread |-> t, tool |-> tool_call.name,
                             issued_by |-> threads[t].user_id,
                             ran_as |-> finance_api])
                ELSE invocations
    /\ UNCHANGED <<finance_api, pipevars, cleanvars, servicevars>>

\* the loop is over: state["tool_results"] = tool_results, return state
ToolsReturn(t) ==
    /\ threads[t].pc = "loop"
    /\ threads[t].tool_calls = <<>>
    /\ threads' = [threads EXCEPT ![t].pc = "returned"]
    /\ UNCHANGED <<finance_api, invocations, pipevars, cleanvars, servicevars>>

\* generate_answer's operational branch reads tool_results into its context
ToolsGenerate(t) ==
    /\ threads[t].pc = "returned"
    /\ threads' = [threads EXCEPT ![t].pc = "done",
                                  ![t].context = context_parts(threads[t].tool_results)]
    /\ UNCHANGED <<finance_api, invocations, pipevars, cleanvars, servicevars>>

NextTools ==
    \/ \E t \in Threads : ToolsEnter(t)
    \/ \E t \in Threads : ToolsSelect(t)
    \/ \E t \in Threads : ToolsInvoke(t)
    \/ \E t \in Threads : ToolsReturn(t)
    \/ \E t \in Threads : ToolsGenerate(t)

SpecTools == Init /\ [][NextTools]_vars

(***************************************************************************)
(* What the two stores are handed after a step: the value a node function  *)
(* returned, under each setting of the cache switch and each saver.  The   *)
(* graph wraps a node in make_cacheable_node only when the cache is        *)
(* enabled; the Redis saver cleans the checkpoint in put, the in-memory    *)
(* saver of the library is given the checkpoint as it is.                  *)
(***************************************************************************)
\* settings.cache.enabled and the saver get_checkpointer returned
CleanSettings == [cache_enabled : BOOLEAN, saver : {"redis", "memory"}]

\* the state after the Router classified a question
RoutedState(user_query, query_type) ==
    [initial_state(user_query, demo_user_id, session_of_user(demo_user_id),
                   <<>>, TRUE, None)
        EXCEPT !.query_type = query_type]

\* what route_query, rag_retrieve, call_tools and generate_answer return
RawNodeResults ==
    LET asked == RoutedState("How do I reset my password?", None)
        doc == RoutedState("How do I reset my password?", "documentation")
        op == RoutedState("What's my account balance?", "operational")
        routed == {route_query(asked, r).state :
                      r \in {x \in RouterResponses : ~route_query(asked, x).raised}}
        found == {rag_retrieve(doc, o).state : o \in SearchOutcomes}
        fetched == {call_tools(op, o).state :
                       o \in {x \in ToolOutcomes : ~call_tools(op, x).raised}}
    IN routed \cup found \cup fetched
         \cup {generate_answer(st, g).state : st \in found, g \in GeneratorOutcomes}

\* add_node(name, make_cacheable_node(f) if settings.cache.enabled else f)
node_output(returned, cache_enabled) ==
    IF cache_enabled THEN clean_state_for_caching(returned) ELSE returned

\* what the saver keeps of a checkpoint: RedisCheckpointSaver.put pickles
\* the cleaned checkpoint, the in-memory saver gets no cleaning
saver_keeps(saver, checkpoint) ==
    IF saver = "redis" THEN clean_checkpoint_for_pickling(checkpoint) ELSE checkpoint

\* a node function returns
NodeReturns ==
    /\ snapshot = NoSnapshot \/ stored # NoSnapshot
    /\ \E raw \in RawNodeResults, cfg \in CleanSettings :
          snapshot' = [result |-> raw, settings |-> cfg]
    /\ cached' = NoSnapshot
    /\ stored' = NoSnapshot
    /\ UNCHANGED <<pipevars, toolvars, servicevars>>

\* the cache stores the writes of the node
CacheWrite ==
    /\ snapshot # NoSnapshot
    /\ snapshot.settings.cache_enabled
    /\ cached = NoSnapshot
    /\ cached' = node_output(snapshot.result, TRUE)
    /\ UNCHANGED <<snapshot, stored, pipevars, toolvars, servicevars>>

\* the checkpoint of the completed step goes to the saver
CheckpointWrite ==
    /\ snapshot # NoSnapshot
    /\ snapshot.settings.cache_enabled => cached # NoSnapshot
    /\ stored = NoSnapshot
    /\ stored' = saver_keeps(snapshot.settings.saver,
                             CheckpointOf(CheckpointIds[1],
                                          node_output(snapshot.result,
                                                      snapshot.settings.cache_enabled)))
    /\ UNCHANGED <<snapshot, cached, pipevars, toolvars, servicevars>>

NextClean ==
    \/ NodeReturns
    \/ CacheWrite
    \/ CheckpointWrite

SpecClean == Init /\ [][NextClean]_vars

(***************************************************************************)
(* Vocabulary of the properties                                            *)
(***************************************************************************)
\* the fingerprint of a state's query text
QueryFingerprint(st) == sha256(st.user_query)

\* the TTL that CacheSettings configures for a step
ConfiguredTTL(step) ==
    CASE step = "router" -> ttl_router
      [] step = "rag" -> ttl_rag
      [] step = "tools" -> ttl_tools
      [] step = "generator" -> ttl_generator

\* entries of the step that a lookup with the current query must find live
LiveEntries(step) ==
    {e \in cache : e.step = step /\ e.key = QueryFingerprint(state)
                   /\ now < e.expiry}

\* states that differ from st in one field other than the query text
Variants(st) ==
    { [st EXCEPT !.session_id = "another session"],
      [st EXCEPT !.user_id = "bob"],
      [st EXCEPT !.chat_history = <<<<"human", "hello">>>>],
      [st EXCEPT !.query_type = "operational"],
      [st EXCEPT !.retrieved_docs = <<d2>>],
      [st EXCEPT !.tool_results = <<[tool |-> "get_transactions", outcome |-> "result"]>>],
      [st EXCEPT !.answer = "an answer"],
      [st EXCEPT !.is_safe_query = FALSE] }

\* what the step function of a step can return on the current state, cleaned
NodeOutputs(step) ==
    CASE step = "router" ->
            {clean_state_for_caching(route_query(state, r).state) :
                r \in {x \in RouterResponses : ~route_query(state, x).raised}}
      [] step = "rag" ->
            {clean_state_for_caching(rag_retrieve(state, o).state) :
                o \in SearchOutcomes}
      [] step = "tools" ->
            {clean_state_for_caching(call_tools(state, o).state) :
                o \in {x \in ToolOutcomes : ~call_tools(state, x).raised}}
      [] step = "generator" ->
            {clean_state_for_caching(generate_answer(state, o).state) :
                o \in GeneratorOutcomes}

\* the graph run of the current call is over and the Generator was its last step
Answered ==
    /\ pc \in {"END", "done"}
    /\ walk # <<>>
    /\ walk[Len(walk)].step = "generator"

\* the conditional edge after Router was evaluated with is_safe_query false
Rejected ==
    /\ walk # <<>>
    /\ walk[1].step = "router"
    /\ ~walk[1].raised
    /\ ~walk[1].safe

(***************************************************************************)
(* C1  Fingerprint purity: two pipeline states with the same user_query    *)
(* text have the same cache key, for every step, whatever their other      *)
(* fields hold.  Checked between the current state and the states under    *)
(* which the cache entries were written, between any two entries, and      *)
(* between the current state and its one-field variants.                   *)
(***************************************************************************)
FingerprintPurity ==
    /\ \A e \in cache :
          e.value.user_query = state.user_query => e.key = cache_key_for_state(state)
    /\ \A e1, e2 \in cache :
          e1.value.user_query = e2.value.user_query => e1.key = e2.key
    /\ \A st \in Variants(state) : cache_key_for_state(st) = cache_key_for_state(state)

\* a step is about to look up a live entry that another session's run wrote
FingerprintPurityWitness ==
    /\ pc \in Steps
    /\ \E e \in cache :
          /\ e.step = pc
          /\ now < e.expiry
          /\ e.value.user_query = state.user_query
          /\ e.value.session_id # state.session_id
          /\ e.value.user_id # state.user_id

(***************************************************************************)
(* C2  Cache check before each step: with a live entry under (step,        *)
(* fingerprint of the query) the step function and its collaborator are    *)
(* not invoked and the cached output becomes the state; without one the    *)
(* step function runs exactly once and, unless it raised, its output is    *)
(* the new state and is stored live under that key.                        *)
(***************************************************************************)
CacheCheckedBeforeStep ==
    [][\A step \in Steps :
        pc = step =>
            IF LiveEntries(step) # {}
            THEN /\ invoked' = invoked
                 /\ called' = called
                 /\ \E e \in LiveEntries(step) : state' = e.value
            ELSE /\ invoked' = [invoked EXCEPT ![step] = 1]
                 /\ pc' # "failed" =>
                       /\ state' \in NodeOutputs(step)
                       /\ \E e \in cache' :
                             /\ e.step = step
                             /\ e.key = QueryFingerprint(state)
                             /\ e.value = state'
                             /\ now < e.expiry]_vars

\* a run in which one step was served from the cache and another executed
CacheCheckedBeforeStepWitness ==
    \E i, j \in DOMAIN walk : walk[i].hit /\ ~walk[j].hit /\ ~walk[j].raised

(***************************************************************************)
(* C3  Cache correctness under TTL: an entry written at time T for a step  *)
(* whose configured ttl is S is served by every lookup with the same       *)
(* fingerprint before T+S, and a lookup after T+S executes the step again. *)
(***************************************************************************)
CacheCorrectUnderTTL ==
    [][\A step \in Steps :
        pc = step =>
            \A e \in cache :
                (e.step = step /\ e.key = QueryFingerprint(state)) =>
                    /\ now < e.written + ConfiguredTTL(step) =>
                          (state' = e.value /\ invoked' = invoked)
                    /\ now > e.written + ConfiguredTTL(step) =>
                          invoked' = [invoked EXCEPT ![step] = 1]]_vars

\* a run that was served an entry some time after its write and executed a
\* step whose entry had expired
CacheCorrectUnderTTLWitness ==
    \E i, j \in DOMAIN walk :
        /\ walk[i].hit /\ walk[i].age > 0
        /\ ~walk[j].hit /\ walk[j].age >= ConfiguredTTL(walk[j].step)

(***************************************************************************)
(* C4  Step sequence: every run walks Router, then exactly one of rag and  *)
(* tools, then Generator, or Router alone when the query is rejected; no   *)
(* step function is invoked more than once per run, a failing one          *)
(* included.                                                               *)
(***************************************************************************)
StepSequence ==
    /\ Len(walk) <= 3
    /\ Len(walk) >= 1 => walk[1].step = "router"
    /\ Len(walk) >= 2 => walk[2].step \in {"rag", "tools"}
    /\ Len(walk) >= 3 => walk[3].step = "generator"
    /\ \A i \in DOMAIN walk : walk[i].raised => (i = Len(walk) /\ pc \in {"failed", "done"})
    /\ \A step \in Steps : invoked[step] <= 1
    /\ Rejected => (Len(walk) = 1 /\ pc \in {"END", "done"})
    /\ (pc \in {"END", "done"} /\ runs > 0 /\ exc = None) =>
            (Len(walk) = 3 \/ (Len(walk) = 1 /\ Rejected))
    /\ pc \in Steps => (pc = "router" <=> walk = <<>>)

\* a finished run that walked router, tools, generator
StepSequenceWitness ==
    /\ pc = "done"
    /\ Len(walk) = 3
    /\ walk[2].step = "tools"
    /\ invoked["tools"] = 1

(***************************************************************************)
(* C5  Unsafe queries terminate at the conditional edge: when              *)
(* is_safe_query is false as the edge after Router is evaluated, the run   *)
(* ends there and none of rag, tools and generator executes, whatever      *)
(* query_type Router set.                                                  *)
(***************************************************************************)
UnsafeTerminates ==
    Rejected =>
        /\ pc \in {"END", "done"}
        /\ Len(walk) = 1
        /\ invoked["rag"] = 0 /\ invoked["tools"] = 0 /\ invoked["generator"] = 0
        /\ state.retrieved_docs = <<>> /\ state.tool_results = <<>>
        /\ state.answer = None

\* a rejected run whose Router classified the query as operational
UnsafeTerminatesWitness ==
    /\ Rejected
    /\ pc = "done"
    /\ state.query_type = "operational"

(***************************************************************************)
(* C6  Rejection result: in every run that terminates through the unsafe   *)
(* edge, the answer that process_query returns is a non-empty message      *)
(* communicating the rejection and the returned query_type is neither      *)
(* documentation nor operational.                                          *)
(***************************************************************************)
RejectionResult ==
    (pc = "done" /\ Rejected) =>
        /\ result.answer \notin {None, Missing, ""}
        /\ result.query_type \notin {"documentation", "operational"}

(***************************************************************************)
(* C7  Exclusive evidence, as stated: in the final state of every answered *)
(* run exactly one of retrieved_docs and tool_results is non-empty.        *)
(***************************************************************************)
ExactlyOneEvidence ==
    Answered => ((state.retrieved_docs # <<>>) <=> (state.tool_results = <<>>))

(***************************************************************************)
(* C7  Exclusive evidence, amended: in the final state of every answered   *)
(* run retrieved_docs and tool_results are never both non-empty, and       *)
(* tool_results is non-empty only on the operational route; both are empty *)
(* when the path step got no evidence.                                     *)
(***************************************************************************)
AtMostOneEvidence ==
    Answered =>
        /\ ~(state.retrieved_docs # <<>> /\ state.tool_results # <<>>)
        /\ state.tool_results # <<>> => state.query_type = "operational"
        /\ state.retrieved_docs # <<>> => state.query_type # "operational"

\* an answered run on the tools path whose tools recorded results
AtMostOneEvidenceWitness ==
    /\ Answered
    /\ pc = "done"
    /\ walk[2].step = "tools"
    /\ state.tool_results # <<>>
    /\ state.retrieved_docs = <<>>

(***************************************************************************)
(* C8  Deduplicated sources: in the final state of every run no two        *)
(* entries of sources share the same (title, filename) pair, on the        *)
(* retrieval path and on the tools path.                                   *)
(***************************************************************************)
SourcesDeduplicated ==
    pc \in {"END", "done"} =>
        \A i, j \in DOMAIN state.sources :
            (state.sources[i].title = state.sources[j].title
             /\ state.sources[i].filename = state.sources[j].filename) => i = j

(***************************************************************************)
(* C9  Generator reads the evidence of the path step that ran: when the    *)
(* Generator function executes, the field it reads is retrieved_docs after *)
(* the retrieval step, the unknown route included, and tool_results after  *)
(* the tools step.                                                         *)
(***************************************************************************)
GeneratorReadsPathEvidence ==
    (Len(walk) = 3 /\ gen_read # "none") =>
        gen_read = (IF walk[2].step = "rag" THEN "retrieved_docs" ELSE "tool_results")

(***************************************************************************)
(* C10  Routing fallback: when the classification call raises or returns   *)
(* output that cannot be parsed, route_query does not raise, the state     *)
(* has query_type documentation and the fallback routing_reason, and the   *)
(* conditional edge selects the retrieval step.                            *)
(***************************************************************************)
RoutingFallback ==
    (walk # <<>> /\ ~walk[1].hit /\ walk[1].outcome \in {"invoke_error", "unparsable"}) =>
        /\ ~walk[1].raised
        /\ exc = None
        /\ Len(walk) = 1 =>
              /\ pc = "rag"
              /\ state.query_type = "documentation"
              /\ state.routing_reason = FallbackReason
        /\ Len(walk) >= 2 => walk[2].step = "rag"

\* the classification output could not be parsed and the retrieval step is next
RoutingFallbackWitness ==
    /\ Len(walk) = 1
    /\ ~walk[1].hit
    /\ walk[1].outcome = "unparsable"
    /\ pc = "rag"

(***************************************************************************)
(* C11  route_decision is total on safe queries: it selects tools exactly  *)
(* when query_type is operational and rag for every other value            *)
(* (documentation, unknown, None, an absent key, any other string), both   *)
(* at the edge of every run and for every value put into the state.        *)
(***************************************************************************)
QueryTypeValues == {"documentation", "operational", "unknown", "billing", "error", "", None, Missing}

RouteDecisionTotal ==
    /\ \A qt \in QueryTypeValues :
          route_decision([state EXCEPT !.query_type = qt, !.is_safe_query = TRUE])
              = IF qt = "operational" THEN "tools" ELSE "rag"
    /\ (Len(walk) = 1 /\ ~walk[1].raised /\ state.is_safe_query) =>
          /\ pc \in {"rag", "tools"}
          /\ pc = "tools" <=> state.query_type = "operational"

\* the edge sent an unrecognised query_type to the retrieval step
RouteDecisionTotalWitness ==
    /\ Len(walk) = 1
    /\ ~walk[1].hit
    /\ state.query_type = "billing"
    /\ pc = "rag"

(***************************************************************************)
(* C12  After the Router step query_type is one of documentation,          *)
(* operational and unknown, whatever the classification call returned.     *)
(***************************************************************************)
ClassifiedRoute ==
    (walk # <<>> /\ ~walk[1].raised) =>
        state.query_type \in {"documentation", "operational", "unknown"}

(***************************************************************************)
(* C13  Within one run query_type is written by the Router step only: no   *)
(* later step changes it, whether the step executes or its output is       *)
(* served from the result cache.                                           *)
(***************************************************************************)
RouteWrittenOnce ==
    [][(pc \in {"rag", "tools", "generator"}) =>
          (state'.query_type = state.query_type)]_vars

(***************************************************************************)
(* Vocabulary of the checkpoint properties                                 *)
(***************************************************************************)
\* the put calls made for a thread, and those whose four writes all succeeded
PutsOf(thread_id) == {i \in DOMAIN puts : puts[i].config.thread_id = thread_id}

StoredPutsOf(thread_id) == {i \in PutsOf(thread_id) : puts[i].fail_at = 0}

LastOf(indexes) == CHOOSE i \in indexes : \A j \in indexes : j <= i

\* the keys of put i have not expired at the given time
WithinTTL(i, time) ==
    graph.checkpointer = "memory" \/ time < puts[i].time + ttl_checkpoints

\* the tuple holds the state and the metadata of put i
TupleIsPut(tuple, i) ==
    /\ tuple # <<>>
    /\ tuple[1].checkpoint.id = puts[i].checkpoint.id
    /\ tuple[1].checkpoint.channel_values = puts[i].checkpoint.channel_values
    /\ tuple[1].metadata = puts[i].metadata
    /\ tuple[1].config.thread_id = puts[i].config.thread_id

\* the last get_tuple asked, with the store answering, for the latest
\* checkpoint of its thread
AsksLatest ==
    got.asked /\ got.redis_ok /\ got.config.checkpoint_id \in {None, "latest"}

RecordKey(prefix, thread_id, id) == prefix \o ":" \o thread_id \o "::" \o id

StepCompleted ==
    /\ graph.checkpointer \in {"memory", "redis"}
    /\ pc \in Steps \cup {"END", "done"}
    /\ walk # <<>>
    /\ ~walk[Len(walk)].raised

\* what a get of the latest checkpoint of the current session returns now
LatestOfSession == get_tuple(store, Config(session, None), TRUE, now)

StartupFallback ==
    (/\ graph.checkpointer # "unset"
     /\ graph.settings.checkpoint_enabled
     /\ graph.settings.checkpointer_type = "redis"
     /\ ~graph.redis_up) =>
        /\ graph.checkpointer = "memory"
        /\ exc # CheckpointError
        /\ \A i \in DOMAIN puts : puts[i].fail_at = 0
        /\ pc = "done" =>
              /\ result.answer \notin {None, Missing, ""}
              /\ exc = None => (result.query_type # "error" /\ result.answer = state.answer)
        /\ StepCompleted => LatestOfSession # <<>>

\* a run answered by a graph that started while Redis was down
StartupFallbackWitness ==
    /\ graph.settings.checkpointer_type = "redis"
    /\ ~graph.redis_up
    /\ pc = "done"
    /\ exc = None
    /\ result.answer = "Here is the answer."
    /\ puts # <<>>

(***************************************************************************)
(* C18  A failing checkpoint write does not abort the run: put does not    *)
(* raise and returns the caller's config, and the step that was being      *)
(* checkpointed ends as it would have with a successful write, so the run  *)
(* goes on to the same terminal state and answer.                          *)
(***************************************************************************)
PutFailureSwallowed ==
    [][(Len(puts') > Len(puts) /\ puts'[Len(puts')].fail_at # 0) =>
          /\ ~puts'[Len(puts')].raised
          /\ puts'[Len(puts')].returned = puts'[Len(puts')].config
          /\ exc' # CheckpointError
          /\ pc \in {"idle", "done"} => pc' = "router"
          /\ pc \in Steps =>
                /\ pc' = next_node(pc, state')
                /\ state' \in NodeOutputs(pc) \cup {e.value : e \in LiveEntries(pc)}]_vars

\* a run that lost a checkpoint write and still returned its answer
PutFailureSwallowedWitness ==
    /\ pc = "done"
    /\ exc = None
    /\ result.answer = "Here is the answer."
    /\ \E i \in DOMAIN puts : puts[i].run = runs /\ puts[i].fail_at # 0

(***************************************************************************)
(* C19  If an exception escapes a step during the graph run, process_query *)
(* does not raise: it returns a result with query_type error, an empty     *)
(* sources list, an answer string and the run's session_id.                *)
(***************************************************************************)
ErrorResult ==
    /\ pc = "failed" => (exc # None /\ walk # <<>> /\ walk[Len(walk)].raised)
    /\ (walk # <<>> /\ walk[Len(walk)].raised) => pc \in {"failed", "done"}
    /\ (pc = "done" /\ exc # None) =>
          /\ result.query_type = "error"
          /\ result.sources = <<>>
          /\ result.answer \notin {None, Missing, ""}
          /\ result.session_id = session

\* the tools step raised in a run of a caller-named session and the caller
\* got the error result
ErrorResultWitness ==
    /\ pc = "done"
    /\ Len(walk) = 2
    /\ walk[2].step = "tools"
    /\ walk[2].raised
    /\ result.session_id = "work"

\* texts an exception can carry
ExceptionTexts == {"llm client unavailable", "timeout", "connection refused", ""}

(***************************************************************************)
(* C20  The answer returned to the caller never carries low-level error    *)
(* detail: when an exception escapes the graph run or is raised inside the *)
(* Generator, the answer is the same message whatever text the exception   *)
(* carries.                                                                *)
(***************************************************************************)
ErrorDetailHidden ==
    /\ (pc = "done" /\ exc # None) =>
          \A e \in ExceptionTexts : result.answer = process_error_answer(e)
    /\ (pc = "done" /\ Len(walk) = 3 /\ walk[3].outcome = "error") =>
          \A e \in ExceptionTexts : result.answer = generator_error_answer(e)

(***************************************************************************)
(* C21  Collaborator failures are not fatal: a failing search, a failing   *)
(* tool-selection call, failing tool calls and a failing LLM call of the   *)
(* Generator raise nothing out of their step, and a run whose steps raised *)
(* nothing ends after the Generator with a non-empty answer: the "Sorry"   *)
(* answer when the failure left the Generator without evidence, the error  *)
(* message when the Generator's own call failed.                           *)
(***************************************************************************)
\* step i of the run executed and its collaborator failed
CollaboratorFailed(i) ==
    /\ ~walk[i].hit
    /\ \/ walk[i].step = "rag" /\ walk[i].outcome = "error"
       \/ walk[i].step = "tools" /\ walk[i].outcome = "invoke_error"
       \/ walk[i].step = "generator" /\ walk[i].outcome = "error"

RoutingIdempotent ==
    \A response \in ClassifierResponses :
        LET first == route_query(state, response)
            second == route_query(state, response)
            again == route_query(first.state, response)
        IN ~first.raised =>
              /\ ~second.raised
              /\ second.state.query_type = first.state.query_type
              /\ next_node("router", second.state) = next_node("router", first.state)
              /\ ~again.raised
              /\ again.state.query_type = first.state.query_type
              /\ again.state.routing_reason = first.state.routing_reason
              /\ next_node("router", again.state) = next_node("router", first.state)

\* the Router step has executed again on the question, after the entry of
\* its first execution expired, and fell back to documentation
RoutingIdempotentWitness ==
    /\ runs >= 2
    /\ Len(walk) = 1
    /\ ~walk[1].hit
    /\ walk[1].age >= ttl_router
    /\ walk[1].outcome = "unparsable"
    /\ state.query_type = "documentation"
    /\ pc = "rag"

(***************************************************************************)
(* C27  The identity fields of a run's state (session_id, user_id,         *)
(* user_query, chat_history) are not changed by any step of the run,       *)
(* whether the step executes or is served from a cache entry, an entry     *)
(* written by another session's run with the same query text included.     *)
(***************************************************************************)
IdentityFieldsFrozen ==
    [][(pc \in Steps) =>
          /\ state'.session_id = state.session_id
          /\ state'.user_id = state.user_id
          /\ state'.user_query = state.user_query
          /\ state'.chat_history = state.chat_history]_vars

(***************************************************************************)
(* C29  Cache entries are namespaced per step: a hit of a step replays an  *)
(* entry that this step wrote under the query's fingerprint, never one of  *)
(* another step, and a step that looks up, drops or rewrites its entry     *)
(* leaves the entries of the other steps, expired ones included, as they   *)
(* were.                                                                   *)
(***************************************************************************)
CacheNamespacedPerStep ==
    [][(pc \in Steps) =>
          /\ \A e \in cache : e.step # pc => e \in cache'
          /\ \A e \in cache' : e.step # pc => e \in cache
          /\ (walk' # walk /\ walk'[Len(walk')].hit) =>
                \E e \in cache :
                    /\ e.step = pc
                    /\ e.key = QueryFingerprint(state)
                    /\ state' = Merge(state, e.value)]_vars

\* the router step is served from its entry while the entry of the
\* retrieval step, written in the same run for the same query, has expired
\* and is still stored
CacheNamespacedPerStepWitness ==
    /\ walk # <<>>
    /\ walk[Len(walk)].step = "router"
    /\ walk[Len(walk)].hit
    /\ \E e \in cache :
          /\ e.step = "rag"
          /\ e.key = QueryFingerprint(state)
          /\ ~(now < e.expiry)

(***************************************************************************)
(* C28  The answer returned for an operational query is not derived from   *)
(* tool results fetched more than ttl_tools before it is returned: a step  *)
(* of the run that is served from the cache, the Generator step with its   *)
(* longer TTL included, replays nothing older than ttl_tools.              *)
(***************************************************************************)
OperationalAnswerFresh ==
    (pc = "done" /\ exc = None /\ result.query_type = "operational"
     /\ state.tool_results # <<>>) =>
        \A i \in DOMAIN walk :
            (walk[i].step \in {"tools", "generator"} /\ walk[i].hit) =>
                walk[i].age <= ttl_tools

(***************************************************************************)
(* C26  Every run terminates: whatever the classification, the guardrail   *)
(* verdict, the cache lookups, the checkpoint writes and the collaborator  *)
(* calls give, a process_query call that has started its graph run         *)
(* eventually returns, after at most three steps, and what it returns is   *)
(* an answer (the Generator ran), a rejection (the edge after the Router   *)
(* ended the run of an unsafe query) or the error result.                  *)
(***************************************************************************)
TerminalOutcome ==
    \/ exc # None /\ result.query_type = "error"
    \/ exc = None /\ Rejected /\ Len(walk) = 1
    \/ exc = None /\ Answered /\ result.answer # None

RunTerminates ==
    (pc \in Steps \cup {"END", "failed"}) ~>
        (pc = "done" /\ Len(walk) <= 3 /\ TerminalOutcome)

\* a call returned its answer after a run whose Router step was served from
\* the cache and which lost a checkpoint write
RunTerminatesWitness ==
    /\ pc = "done"
    /\ runs = 2
    /\ walk[1].hit
    /\ Answered
    /\ \E i \in DOMAIN puts : puts[i].run = runs /\ puts[i].fail_at # 0

(***************************************************************************)
(* C24  A call without a session id (None or empty) works under            *)
(* "session_" + user_id, the user id being the demo user's when the call   *)
(* gave none.  The session id of a call is never empty; the result of the  *)
(* call, the success result and the error result alike, carries it; every  *)
(* checkpoint the call writes is filed under it as thread id; and the      *)
(* chat history stored under it holds the call's user message.             *)
(***************************************************************************)
Omitted(arg) == arg \in {None, ""}

SessionIdOfCall ==
    pc # "idle" =>
        /\ Omitted(args.session_id) =>
              session = (IF Omitted(args.user_id) THEN "session_user_123"
                         ELSE IF args.user_id = "alice" THEN "session_alice"
                         ELSE "session_")
        /\ ~Omitted(args.session_id) => session = args.session_id
        /\ ~Omitted(session)
        /\ pc = "done" => result.session_id = session
        /\ \A i \in DOMAIN puts :
              puts[i].run = runs => puts[i].config.thread_id = session
        /\ \E i \in DOMAIN history[session] :
              /\ history[session][i] = [role |-> "user", content |-> state.user_query]
              /\ i >= Len(history[session]) - 1

\* alice's call without a session id, after the demo user's call, was served
\* the Router result from the cache and returned under alice's own session
SessionIdOfCallWitness ==
    /\ pc = "done"
    /\ runs = 2
    /\ args = [user_id |-> "alice", session_id |-> None]
    /\ walk[1].hit
    /\ result.session_id = "session_alice"
    /\ PutsOf("session_user_123") # {}
    /\ PutsOf("session_alice") # {}

\* a call that gave empty ids ended with the error result under the demo
\* user's session
SessionIdOfCallErrorWitness ==
    /\ pc = "done"
    /\ exc # None
    /\ args = [user_id |-> "", session_id |-> ""]
    /\ result.session_id = "session_user_123"

(***************************************************************************)
(* C22  Tool partial success: when the Tools step has returned, every call *)
(* the model requested was executed, in request order, and tool_results    *)
(* holds one entry per requested call, a result entry for a call that      *)
(* succeeded and an error entry for a call that failed; after the          *)
(* Generator built its context, every successful result is in it.          *)
(***************************************************************************)
\* the tools a thread invoked, in the order of the invocations
InvokedBy(t) ==
    LET mine == SelectSeq(invocations, LAMBDA v : v.thread = t)
    IN [i \in 1..Len(mine) |-> mine[i].tool]

EntryOf(tool_call) ==
    [tool |-> tool_call.name, outcome |-> IF tool_call.ok THEN "result" ELSE "error"]

ToolPartialSuccess ==
    \A t \in Threads :
        LET th == threads[t]
        IN /\ (th.pc \in {"returned", "done"}) =>
                /\ InvokedBy(t) = [i \in 1..Len(th.requested) |-> th.requested[i].name]
                /\ th.tool_results = [i \in 1..Len(th.requested) |-> EntryOf(th.requested[i])]
           /\ th.pc = "done" =>
                \A i \in 1..Len(th.requested) :
                    th.requested[i].ok =>
                        \E j \in 1..Len(th.context) :
                            th.context[j] = <<"Data", th.requested[i].name>>

(***************************************************************************)
(* C23  Under every interleaving of two runs for different users, each     *)
(* tool invocation executes against the user_id of the run that issued it. *)
(***************************************************************************)
ToolRunsAsIssuer ==
    \A i \in 1..Len(invocations) : invocations[i].ran_as = invocations[i].issued_by

(***************************************************************************)
(* C30  Every snapshot the result cache or the checkpoint store holds was  *)
(* sanitized before the write: no value in it is a numeric-library scalar  *)
(* (the score of a retrieved document is the value of that kind a state    *)
(* of this pipeline carries).                                              *)
(***************************************************************************)
Sanitized(st) ==
    \A i \in 1..Len(st.retrieved_docs) : st.retrieved_docs[i].score # "numpy.float32"

SnapshotsSanitized ==
    /\ cached # NoSnapshot => Sanitized(cached)
    /\ stored # NoSnapshot => Sanitized(stored.channel_values)

(***************************************************************************)
(* C31  get_tuple does not raise and leaves the store as it is, and it     *)
(* returns None whenever no live record exists for what was asked: no put  *)
(* wrote a record under that thread and checkpoint id (or alias), the      *)
(* checkpoint TTL has elapsed since the put that did, or the Redis read    *)
(* fails.                                                                  *)
(***************************************************************************)
\* the id under which get_tuple looks a config up
AskedId(config) ==
    IF config.checkpoint_id \in {None, ""} THEN "latest" ELSE config.checkpoint_id

\* some put wrote the checkpoint record of (thread, id) and its TTL has not
\* elapsed at the given time (the alias is the third write of a put, the
\* record under the checkpoint's own id the first)
WrittenLive(thread_id, id, time) ==
    \E i \in PutsOf(thread_id) :
        /\ WithinTTL(i, time)
        /\ IF id = "latest"
           THEN puts[i].fail_at \notin {1, 2, 3}
           ELSE puts[i].checkpoint.id = id /\ puts[i].fail_at # 1

GetTupleNoneWithoutRecord ==
    [][(got'.asked /\ ~got.asked) =>
          /\ store' = store
          /\ pc' = pc
          /\ exc' = exc
          /\ (~got'.redis_ok
                \/ ~WrittenLive(got'.config.thread_id, AskedId(got'.config), got'.time))
              => got'.tuple = NoTuple]_vars

\* a get by the latest alias found nothing because the TTL of the thread's
\* checkpoints had elapsed
GetTupleNoneWithoutRecordWitness ==
    /\ got.asked
    /\ got.redis_ok
    /\ graph.checkpointer = "redis"
    /\ got.tuple = NoTuple
    /\ StoredPutsOf(got.config.thread_id) # {}
    /\ \A i \in PutsOf(got.config.thread_id) : ~WithinTTL(i, got.time)

(***************************************************************************)
(* RedisCheckpointSaver.put at the granularity of its Redis commands: two  *)
(* callers that share one Redis, each inside a put whose four SETEX calls  *)
(* run one after the other; a SETEX that raises ends the put in its except *)
(* branch.                                                                 *)
(***************************************************************************)
\* put calls begun by the two callers
MaxWriterPuts == 2

\* session ids of the callers; a session id is any string of the request
PutThreads == {"work", "work:"}

\* the SETEX calls of put, in the order of the code
put_writes(config, checkpoint, metadata) ==
    LET thread_id == config.thread_id
        checkpoint_ns == config.checkpoint_ns
        checkpoint_id == checkpoint.id
        serialized_checkpoint == pickle_dumps(clean_checkpoint_for_pickling(checkpoint))
        serialized_metadata == pickle_dumps(metadata)
    IN << [key |-> make_key("checkpoint", thread_id, checkpoint_ns, checkpoint_id),
           value |-> serialized_checkpoint],
          [key |-> make_key("checkpoint_meta", thread_id, checkpoint_ns, checkpoint_id),
           value |-> serialized_metadata],
          [key |-> make_key("checkpoint", thread_id, checkpoint_ns, "latest"),
           value |-> serialized_checkpoint],
          [key |-> make_key("checkpoint_meta", thread_id, checkpoint_ns, "latest"),
           value |-> serialized_metadata] >>

\* put calls that ended in the except branch so far
RaisedPuts == Cardinality({i \in DOMAIN begun : begun[i].outcome = "raised"})

\* a caller enters put with the next checkpoint of a thread
PutBegin(w) ==
    /\ writers[w] = 0
    /\ Len(begun) < MaxWriterPuts
    /\ \E thread_id \in PutThreads :
          begun' = Append(begun,
                          [config |-> Config(thread_id, None),
                           checkpoint |->
                               CheckpointOf(CheckpointIds[next_id],
                                            initial_state("How do I reset my password?",
                                                          "alice", thread_id, <<>>,
                                                          TRUE, None)),
                           metadata |-> MetadataOf("loop", Len(begun)),
                           written |-> 0,
                           outcome |-> "running"])
    /\ writers' = [writers EXCEPT ![w] = Len(begun) + 1]
    /\ next_id' = next_id + 1
    /\ UNCHANGED <<now, cache, history, runs, pc, session, state, exc, result, walk,
                   invoked, called, gen_read, graph, store, puts, got>>
    /\ UNCHANGED <<args, toolvars, cleanvars, process, saver_calls,
                   memvars>>

\* the next SETEX of the put succeeds
PutWrite(w) ==
    /\ writers[w] # 0
    /\ begun[writers[w]].written < 4
    /\ LET p == begun[writers[w]]
           write == put_writes(p.config, p.checkpoint, p.metadata)[p.written + 1]
       IN store' = setex(store, write.key, ttl_checkpoints, write.value, now)
    /\ begun' = [begun EXCEPT ![writers[w]].written = @ + 1]
    /\ UNCHANGED <<now, cache, history, runs, pc, session, state, exc, result, walk,
                   invoked, called, gen_read, graph, next_id, puts, got>>
    /\ UNCHANGED <<args, toolvars, cleanvars, writers, process, saver_calls,
                   memvars>>

\* the next SETEX of the put raises: the except branch returns
PutRaise(w) ==
    /\ writers[w] # 0
    /\ begun[writers[w]].written < 4
    /\ RaisedPuts < MaxPutFailures
    /\ begun' = [begun EXCEPT ![writers[w]].outcome = "raised"]
    /\ writers' = [writers EXCEPT ![w] = 0]
    /\ UNCHANGED <<pipevars, args, toolvars, cleanvars, process, saver_calls,
                   memvars>>

\* the four writes are done: put returns the config of the checkpoint
PutReturn(w) ==
    /\ writers[w] # 0
    /\ begun[writers[w]].written = 4
    /\ begun' = [begun EXCEPT ![writers[w]].outcome = "returned"]
    /\ writers' = [writers EXCEPT ![w] = 0]
    /\ UNCHANGED <<pipevars, args, toolvars, cleanvars, process, saver_calls,
                   memvars>>

NextPut ==
    \E w \in Writers :
        \/ PutBegin(w)
        \/ PutWrite(w)
        \/ PutRaise(w)
        \/ PutReturn(w)

SpecPut == Init /\ [][NextPut]_vars

(***************************************************************************)
(* C32  Checkpoint lineages are isolated per session: a write of a put for *)
(* one session never changes what a get returns, by the latest alias, with *)
(* no id or by a checkpoint id, for a different session, however the puts  *)
(* of the callers interleave.                                              *)
(***************************************************************************)
\* what a client can ask a thread for: no id, the alias, a checkpoint id
AskedPutIds == {None, "latest"} \cup {CheckpointIds[i] : i \in 1..MaxWriterPuts}

\* everything get_tuple returns for a thread
LineageOf(db, thread_id) ==
    [id \in AskedPutIds |-> get_tuple(db, Config(thread_id, id), TRUE, now)]

LineagesIsolated ==
    [][/\ store' # store => \E i \in DOMAIN begun : begun'[i].written # begun[i].written
       /\ \A i \in DOMAIN begun :
             begun'[i].written # begun[i].written =>
                 \A other \in PutThreads \ {begun[i].config.thread_id} :
                     LineageOf(store', other) = LineageOf(store, other)]_vars

\* two puts of different sessions have returned, and each session's latest
\* checkpoint is its own
LineagesIsolatedWitness ==
    /\ Len(begun) = 2
    /\ begun[1].config.thread_id # begun[2].config.thread_id
    /\ \A i \in {1, 2} :
          /\ begun[i].outcome = "returned"
          /\ LineageOf(store, begun[i].config.thread_id)[None] # NoTuple
          /\ LineageOf(store, begun[i].config.thread_id)[None][1].checkpoint.id
                 = begun[i].checkpoint.id

(***************************************************************************)
(* C34  Once the puts of a session have ended, what a get by the latest   *)
(* alias returns for it is the checkpoint and the metadata of one and the  *)
(* same put, whatever the interleaving of two puts for that session and    *)
(* wherever a put stopped among its four writes.                           *)
(***************************************************************************)
\* no caller is inside a put for the thread
PutsEnded(thread_id) ==
    \A w \in Writers :
        writers[w] # 0 => begun[writers[w]].config.thread_id # thread_id

LatestFromOnePut ==
    \A thread_id \in PutThreads :
        LET latest == get_tuple(store, Config(thread_id, None), TRUE, now)
        IN (PutsEnded(thread_id) /\ latest # NoTuple) =>
              \E i \in DOMAIN begun :
                  /\ begun[i].config.thread_id = thread_id
                  /\ latest[1].checkpoint = clean_checkpoint_for_pickling(begun[i].checkpoint)
                  /\ latest[1].metadata = begun[i].metadata

(***************************************************************************)
(* get_checkpointer and get_rag_graph with their module globals, in a      *)
(* process whose Redis goes away and comes back.                           *)
(***************************************************************************)
\* calls of get_checkpointer in one process
MaxSaverCalls == 3

\* get_checkpointer: the globals after the call and the saver it returns
get_checkpointer_with_globals(g, redis_up) ==
    LET cfg == g.settings
        connected == g.redis_checkpointer = None /\ redis_up
        redis_checkpointer == IF cfg.checkpointer_type = "redis" /\ connected
                              THEN "redis" ELSE g.redis_checkpointer
        checkpointer_type == IF /\ cfg.checkpointer_type = "redis"
                                /\ g.redis_checkpointer = None
                                /\ ~redis_up
                             THEN "memory" ELSE cfg.checkpointer_type
    IN IF ~cfg.checkpoint_enabled
       THEN [globals |-> g, returned |-> "none"]
       ELSE IF cfg.checkpointer_type = "redis" /\ redis_checkpointer # None
       THEN [globals |-> [g EXCEPT !.redis_checkpointer = redis_checkpointer],
             returned |-> "redis"]
       ELSE IF checkpointer_type = "memory" \/ redis_checkpointer = None
       THEN [globals |-> [g EXCEPT !.memory_checkpointer = "memory"],
             returned |-> "memory"]
       ELSE [globals |-> g, returned |-> "none"]

\* the settings are read from the environment when the process starts
ProcessStarts ==
    /\ process.settings.checkpointer_type = "unset"
    /\ \E env \in StartupEnvironments :
          process' = [process EXCEPT !.settings = env.settings,
                                     !.redis_up = env.redis_up]
    /\ UNCHANGED <<pipevars, args, toolvars, cleanvars, writers, begun, saver_calls,
                   memvars>>

\* Redis stops answering, or answers again
RedisChanges ==
    /\ process.settings.checkpointer_type # "unset"
    /\ process' = [process EXCEPT !.redis_up = ~@]
    /\ UNCHANGED <<pipevars, args, toolvars, cleanvars, writers, begun, saver_calls,
                   memvars>>

\* some code of the process saver_calls get_checkpointer
GetCheckpointer ==
    /\ process.settings.checkpointer_type # "unset"
    /\ Len(saver_calls) < MaxSaverCalls
    /\ LET call == get_checkpointer_with_globals(process, process.redis_up)
       IN /\ process' = call.globals
          /\ saver_calls' = Append(saver_calls,
                             [returned |-> call.returned,
                              redis_up |-> process.redis_up,
                              fell_back |-> /\ process.settings.checkpoint_enabled
                                            /\ process.settings.checkpointer_type = "redis"
                                            /\ call.returned = "memory"])
    /\ UNCHANGED <<pipevars, args, toolvars, cleanvars, writers, begun,
                   memvars>>

\* get_rag_graph: the graph is compiled once, with the saver that
\* create_rag_graph gets from get_checkpointer
GetRagGraph ==
    /\ process.settings.checkpointer_type # "unset"
    /\ IF process.rag_graph # None
       THEN UNCHANGED <<process, saver_calls>>
       ELSE IF ~process.settings.checkpoint_enabled
       THEN /\ process' = [process EXCEPT !.rag_graph = "none"]
            /\ UNCHANGED saver_calls
       ELSE /\ Len(saver_calls) < MaxSaverCalls
            /\ LET call == get_checkpointer_with_globals(process, process.redis_up)
               IN /\ process' = [call.globals EXCEPT !.rag_graph = call.returned]
                  /\ saver_calls' = Append(saver_calls,
                                     [returned |-> call.returned,
                                      redis_up |-> process.redis_up,
                                      fell_back |->
                                          /\ process.settings.checkpointer_type = "redis"
                                          /\ call.returned = "memory"])
    /\ UNCHANGED <<pipevars, args, toolvars, cleanvars, writers, begun,
                   memvars>>

NextSaver ==
    \/ ProcessStarts
    \/ RedisChanges
    \/ GetCheckpointer
    \/ GetRagGraph

SpecSaver == Init /\ [][NextSaver]_vars

(***************************************************************************)
(* C33  The fallback lasts for the life of the process: once a call of     *)
(* get_checkpointer has returned the in-memory checkpointer because Redis  *)
(* did not answer, every later call in the process returns the in-memory   *)
(* checkpointer too, even when Redis answers again.                        *)
(***************************************************************************)
FallbackLasts ==
    \A i, j \in DOMAIN saver_calls :
        (i < j /\ saver_calls[i].fell_back) => saver_calls[j].returned = "memory"

MaxMemoryOps == 4

\* add_message sets the key to expire 24 hours later
history_ttl == 86400

\* how far the clock moves between calls: an hour, or past the expiry
MemoryDelays == {3600, 90000}

\* the texts of the messages of a session, in the order they are added
MessageTexts == <<"How do I reset my password?", "Open Settings.", "Thanks">>

\* limits a caller passes to get_history
HistoryLimits == {0, 1, 2}

\* json.dumps(message) and json.loads(msg_raw)
json_dumps(message) == <<"json", message>>

json_loads(msg_raw) == msg_raw[2]

\* InMemoryStore.rpush: the list of the key, whatever its TTL, gets the value
InMemoryStore_rpush(client, key, value) ==
    [client EXCEPT !.store[key] = [present |-> TRUE, items |-> Append(@.items, value)]]

\* InMemoryStore.delete
InMemoryStore_delete(client, key) ==
    [store |-> [client.store EXCEPT ![key] = [present |-> FALSE, items |-> <<>>]],
     ttls |-> [client.ttls EXCEPT ![key] = [present |-> FALSE, at |-> 0]]]

\* the TTL check of InMemoryStore.lrange and InMemoryStore.llen
InMemoryStore_expired(client, key, time) ==
    client.ttls[key].present /\ time > client.ttls[key].at

\* InMemoryStore.lrange: the store after the call and the values
InMemoryStore_lrange(client, key, start, end, time) ==
    IF ~client.store[key].present THEN [client |-> client, value |-> <<>>]
    ELSE IF InMemoryStore_expired(client, key, time)
    THEN [client |-> InMemoryStore_delete(client, key), value |-> <<>>]
    ELSE [client |-> client, value |-> list_range(client.store[key].items, start, end)]

\* InMemoryStore.llen
InMemoryStore_llen(client, key, time) ==
    IF ~client.store[key].present THEN [client |-> client, value |-> 0]
    ELSE IF InMemoryStore_expired(client, key, time)
    THEN [client |-> InMemoryStore_delete(client, key), value |-> 0]
    ELSE [client |-> client, value |-> Len(client.store[key].items)]

\* InMemoryStore.expire
InMemoryStore_expire(client, key, seconds, time) ==
    [client EXCEPT !.ttls[key] = [present |-> TRUE, at |-> time + seconds]]

\* InMemoryStore.ttl
InMemoryStore_ttl(client, key, time) ==
    IF ~client.ttls[key].present THEN -1
    ELSE IF client.ttls[key].at - time > 0 THEN client.ttls[key].at - time ELSE -2

\* a Redis key is there until its expiry
list_live(db, key, time) ==
    db[key].present /\ (db[key].volatile => time < db[key].expiry)

\* Redis RPUSH: a key that is gone starts a new list without expiry
redis_rpush(db, key, value, time) ==
    IF list_live(db, key, time)
    THEN [db EXCEPT ![key].items = Append(@, value)]
    ELSE [db EXCEPT ![key] = [present |-> TRUE, items |-> <<value>>,
                              volatile |-> FALSE, expiry |-> 0]]

\* Redis EXPIRE
redis_expire(db, key, seconds, time) ==
    IF list_live(db, key, time)
    THEN [db EXCEPT ![key].volatile = TRUE, ![key].expiry = time + seconds]
    ELSE db

\* Redis LRANGE
redis_lrange(db, key, start, end, time) ==
    IF list_live(db, key, time) THEN list_range(db[key].items, start, end) ELSE <<>>

\* Redis LLEN
redis_llen(db, key, time) ==
    IF list_live(db, key, time) THEN Len(db[key].items) ELSE 0

\* Redis TTL
redis_ttl(db, key, time) ==
    IF ~list_live(db, key, time) THEN -2
    ELSE IF ~db[key].volatile THEN -1 ELSE db[key].expiry - time

\* Redis DEL
redis_delete(db, key) ==
    [db EXCEPT ![key] = [present |-> FALSE, items |-> <<>>, volatile |-> FALSE,
                         expiry |-> 0]]

\* the message add_message builds
ChatMessage(role, content, time) ==
    [role |-> role, content |-> content, timestamp |-> time]

\* "ttl_seconds": ttl if ttl > 0 else None
ttl_seconds(ttl) == IF ttl > 0 THEN [none |-> FALSE, seconds |-> ttl]
                    ELSE [none |-> TRUE, seconds |-> 0]

\* the messages get_history parses out of what LRANGE returned
parse_messages(messages_raw) ==
    [i \in 1..Len(messages_raw) |-> json_loads(messages_raw[i])]

\* one more call of the service or advance of the clock; the pipeline, the
\* savers and the puts are not involved
MemoryStep ==
    /\ replies.n < MaxMemoryOps
    /\ UNCHANGED <<cache, history, runs, pc, session, state, exc, result, walk,
                   invoked, called, gen_read, graph, store, next_id, puts, got>>
    /\ UNCHANGED <<args, toolvars, cleanvars, writers, begun, process, saver_calls>>

\* MemoryService.add_message on both backends
AddMessage ==
    /\ MemoryStep
    /\ \E sid \in MemSessions, role \in {"user", "assistant", "system"} :
        LET key == get_key(sid)
            n == Len(backends.memory.store[key].items)
            raw == json_dumps(ChatMessage(role, MessageTexts[n + 1], now))
        IN /\ n < Len(MessageTexts)
           /\ backends' =
                 [memory |-> InMemoryStore_expire(
                                 InMemoryStore_rpush(backends.memory, key, raw),
                                 key, history_ttl, now),
                  redis |-> redis_expire(redis_rpush(backends.redis, key, raw, now),
                                         key, history_ttl, now)]
           /\ replies' = [op |-> "add_message", n |-> replies.n + 1,
                          key |-> key, limit |-> 0,
                          memory |-> TRUE, redis |-> TRUE]
    /\ UNCHANGED now

\* MemoryService.get_history on both backends
GetHistory ==
    /\ MemoryStep
    /\ \E sid \in MemSessions, limit \in HistoryLimits :
        LET key == get_key(sid)
            start == IF limit = 0 THEN 0 ELSE 0 - limit
            read == InMemoryStore_lrange(backends.memory, key, start, -1, now)
        IN /\ backends' = [backends EXCEPT !.memory = read.client]
           /\ replies' = [op |-> "get_history", n |-> replies.n + 1,
                          key |-> key, limit |-> limit,
                          memory |-> parse_messages(read.value),
                          redis |-> parse_messages(
                                        redis_lrange(backends.redis, key, start, -1, now))]
    /\ UNCHANGED now

\* MemoryService.clear_history on both backends
ClearHistory ==
    /\ MemoryStep
    /\ \E sid \in MemSessions :
        /\ backends' = [memory |-> InMemoryStore_delete(backends.memory, get_key(sid)),
                        redis |-> redis_delete(backends.redis, get_key(sid))]
        /\ replies' = [op |-> "clear_history", n |-> replies.n + 1,
                       key |-> get_key(sid), limit |-> 0,
                       memory |-> TRUE, redis |-> TRUE]
    /\ UNCHANGED now

\* MemoryService.get_session_stats on both backends
GetSessionStats ==
    /\ MemoryStep
    /\ \E sid \in MemSessions :
        LET key == get_key(sid)
            count == InMemoryStore_llen(backends.memory, key, now)
        IN /\ backends' = [backends EXCEPT !.memory = count.client]
           /\ replies' =
                 [op |-> "get_session_stats", n |-> replies.n + 1,
                  key |-> key, limit |-> 0,
                  memory |-> [message_count |-> count.value,
                              ttl_seconds |->
                                  ttl_seconds(InMemoryStore_ttl(count.client, key, now))],
                  redis |-> [message_count |-> redis_llen(backends.redis, key, now),
                             ttl_seconds |->
                                 ttl_seconds(redis_ttl(backends.redis, key, now))]]
    /\ UNCHANGED now

\* time passes between two calls
ClockAdvances ==
    /\ MemoryStep
    /\ \E delay \in MemoryDelays : now' = now + delay
    /\ replies' = [NoReply EXCEPT !.n = replies.n + 1]
    /\ UNCHANGED backends

NextMemory ==
    \/ AddMessage
    \/ GetHistory
    \/ ClearHistory
    \/ GetSessionStats
    \/ ClockAdvances

SpecMemory == Init /\ [][NextMemory]_vars

(***************************************************************************)
(* C36  MemoryService behaves the same on its two backends: whatever the   *)
(* sequence of add_message, get_history, clear_history and                 *)
(* get_session_stats calls and clock advances, every call returns on the   *)
(* InMemoryStore what it returns on a Redis list whose key expires 24      *)
(* hours after the last append; messages appended before the key expired   *)
(* are not returned after the expiry.                                      *)
(***************************************************************************)
BackendsAgree == replies.memory = replies.redis

(***************************************************************************)
(* C37  get_history(session, limit) returns at most limit messages, the    *)
(* most recently appended ones in append order, for every limit >= 0 and   *)
(* every length of the history.                                            *)
(***************************************************************************)
\* the most recent limit messages of a list, in append order
MostRecent(h, limit) ==
    IF Len(h) <= limit THEN h ELSE SubSeq(h, Len(h) - limit + 1, Len(h))

\* the messages of a key that Redis still holds
LiveMessages(key) ==
    IF list_live(backends.redis, key, now)
    THEN parse_messages(backends.redis[key].items) ELSE <<>>

HistoryWithinLimit ==
    replies.op = "get_history" =>
        /\ Len(replies.memory) <= replies.limit
        /\ replies.redis = MostRecent(LiveMessages(replies.key), replies.limit)

(***************************************************************************)
(* C38  In every run that took the Tools path the sources are the tool     *)
(* step's: one entry per tool call it recorded, with the title             *)
(* 'API: <tool name>' and the filename 'Operational Data', no document     *)
(* source among them, and no entry at all when the tool step recorded no   *)
(* tool call; the steps after the tool step and the result of the call     *)
(* keep them.                                                              *)
(***************************************************************************)
\* the run went through the tools node
TookToolsPath == \E i \in DOMAIN walk : walk[i].step = "tools"

SourcesToolDerived ==
    [][/\ (pc = "tools" /\ pc' = "generator") =>
             state'.sources = tool_sources(state'.tool_results)
       /\ (pc = "generator" /\ pc' = "END" /\ TookToolsPath) =>
             state'.sources = tool_sources(state.tool_results)
       /\ (pc = "END" /\ pc' = "done" /\ TookToolsPath) =>
             result'.sources = state.sources]_vars

====
